---- MODULE Spec2Model ----
(***************************************************************************)
(* A model of the release tooling of the project template:                 *)
(*   src/tasks.py              the invoke tasks (command line surface)     *)
(*   src/devops/tasks.py       the batch release, secrets                  *)
(*   src/devops/lib/component.py  one deployable component                 *)
(*   src/devops/lib/utils.py   the process runner                          *)
(*                                                                         *)
(* Text is modelled as a sequence of tokens (Str): the separators the code *)
(* splits or replaces on ("/", ":", "=", ",", " ") are tokens of their     *)
(* own, every other token is an opaque piece of text.                      *)
(***************************************************************************)
EXTENDS Integers, Sequences, FiniteSets, TLC

(***************************************************************************)
(* Bounds of the model.                                                    *)
(***************************************************************************)
\* size of the space generate_random_id draws from (36^5 in the program)
NumRelIds == 2
\* number of sealed secret files under envs/<env>/secrets
MaxSecrets == 2

(***************************************************************************)
(* Text helpers: str.split, str.replace, str.strip, concatenation.         *)
(***************************************************************************)
RECURSIVE SplitFrom(_, _, _, _)
SplitFrom(s, sep, i, cur) ==
    IF i > Len(s) THEN <<cur>>
    ELSE IF s[i] = sep THEN <<cur>> \o SplitFrom(s, sep, i + 1, <<>>)
    ELSE SplitFrom(s, sep, i + 1, Append(cur, s[i]))

\* s.split(sep): the pieces between the separators, always at least one
Split(s, sep) == SplitFrom(s, sep, 1, <<>>)

\* s.replace(old, new) for one-token old and new
Replace(s, old, new) == [i \in 1..Len(s) |-> IF s[i] = old THEN new ELSE s[i]]

RECURSIVE LStrip(_)
LStrip(s) == IF Len(s) > 0 /\ Head(s) = " " THEN LStrip(Tail(s)) ELSE s

RECURSIVE RStrip(_)
RStrip(s) ==
    IF Len(s) > 0 /\ s[Len(s)] = " " THEN RStrip(SubSeq(s, 1, Len(s) - 1)) ELSE s

\* s.strip()
Strip(s) == RStrip(LStrip(s))

RECURSIVE Flatten(_)
Flatten(ss) == IF ss = <<>> THEN <<>> ELSE Head(ss) \o Flatten(Tail(ss))

Range(s) == {s[i] : i \in 1..Len(s)}

\* s[-1]
Last(log) == log[Len(log)]

(***************************************************************************)
(* Python dicts keep insertion order: a sequence of <<key, value>> pairs   *)
(* with distinct keys.                                                     *)
(***************************************************************************)
DictKeys(d) == [i \in 1..Len(d) |-> d[i][1]]

DictHas(d, k) == \E i \in 1..Len(d) : d[i][1] = k

DictGet(d, k) == d[CHOOSE i \in 1..Len(d) : d[i][1] = k][2]

\* d[k] = v
DictSet(d, k, v) ==
    IF DictHas(d, k)
    THEN [i \in 1..Len(d) |-> IF d[i][1] = k THEN <<k, v>> ELSE d[i]]
    ELSE Append(d, <<k, v>>)

\* a pop that leaves the key in the dict
DictPopKeeps(d, k) == d

\* d.pop(k, None)
DictPop(d, k) == SelectSeq(d, LAMBDA e : e[1] # k)

(***************************************************************************)
(* Python values of no fixed type (a replica count is None, an int from    *)
(* the settings or the text of a command line flag).                       *)
(***************************************************************************)
PyNone == [t |-> "none", i |-> 0, s |-> <<>>]
PyInt(n) == [t |-> "int", i |-> n, s |-> <<>>]
PyStr(str) == [t |-> "str", i |-> 0, s |-> str]

\* bool(v)
Truthy(v) ==
    CASE v.t = "none" -> FALSE
      [] v.t = "int" -> v.i # 0
      [] OTHER -> v.s # <<>>

(***************************************************************************)
(* Program constants.                                                      *)
(***************************************************************************)
PipelineAgent == <<"service", "/", "pipeline-agent">>
Api == <<"service", "/", "api">>

\* src/tasks.py: ALL_COMPONENTS = ["service/pipeline-agent"]
ALL_COMPONENTS == <<PipelineAgent>>

\* src/devops/settings.py: IMAGE_PREFIX = "myproj-"
IMAGE_PREFIX == <<"myproj-">>

RESTART_RESOURCES == {"Deployment", "DaemonSet", "StatefulSet"}

SKIP_PATCH_KUBE_KINDS ==
    {"ClusterRole", "ClusterRoleBinding", "Role", "RoleBinding", "ServiceAccount"}

\* ROLLOUT_TIMEOUT = 5 * 60.0
ROLLOUT_TIMEOUT == 300

\* src/tasks.py: MAX_TAGS = 50, the number of Docker tags to keep after cleanup
MAX_TAGS == 50

\* TMP = Path("temp")
TMP == "temp"

(***************************************************************************)
(* The working tree the tool runs in.  A manifest file is a sequence of    *)
(* documents; a document keeps the fields the component code reads or      *)
(* writes: kind, metadata.name, metadata.namespace, spec.replicas,         *)
(* spec.template.metadata.labels, spec.template.spec.containers[].image    *)
(* and spec.template.spec.imagePullSecrets (the empty sequence where a     *)
(* text, a mapping or a list is absent).                                   *)
(***************************************************************************)
Registry == <<"imagined.registry.tld">>

DeploymentDoc ==
    [kind |-> "Deployment", name |-> "api", namespace |-> <<>>, replicas |-> PyInt(2),
     labels |-> << <<"app", "api">> >>,
     containers |-> << Registry \o <<"/", "myproj-service-api", ":", "latest">> >>,
     imagePullSecrets |-> <<>>]

ServiceDoc ==
    [kind |-> "Service", name |-> "api", namespace |-> <<>>, replicas |-> PyNone,
     labels |-> <<>>, containers |-> <<>>, imagePullSecrets |-> <<>>]

AgentDoc ==
    [kind |-> "DaemonSet", name |-> "agent", namespace |-> <<>>, replicas |-> PyNone,
     labels |-> << <<"app", "agent">> >>,
     containers |-> << <<"myproj-service-pipeline-agent", ":", "latest">> >>,
     imagePullSecrets |-> <<>>]

\* content of a manifest file of the working tree, by its name
SourceDocs(name) ==
    CASE name = "deployment.yaml" -> <<DeploymentDoc>>
      [] name = "service.yaml" -> <<ServiceDoc>>
      [] name = "agent.yaml" -> <<AgentDoc>>
      [] OTHER -> <<ServiceDoc>>

\* A component directory: <path>/Dockerfile, <path>/post-release.sh,
\* <path>/kube/*.yaml and <path>/kube/obsolete/*.yaml in glob order, and the
\* names under envs/<env>/overrides/<path>/kube/*.yaml.
ComponentDir(dockerfile, post, kube, obsolete, overrides) ==
    [dockerfile |-> dockerfile, post |-> post, kube |-> kube,
     obsolete |-> obsolete, overrides |-> overrides]

\* the layouts a component directory is drawn from
ApiDirs ==
    { ComponentDir(TRUE, FALSE, <<"deployment.yaml">>, <<>>, <<>>),
      ComponentDir(TRUE, TRUE, <<"deployment.yaml">>, <<"old.yaml">>, <<>>),
      ComponentDir(FALSE, TRUE, <<"deployment.yaml", "service.yaml">>,
                   <<"service.yaml">>, <<"deployment.yaml">>),
      ComponentDir(FALSE, FALSE, <<>>, <<>>, <<>>) }

AgentDirs ==
    { ComponentDir(TRUE, FALSE, <<"agent.yaml">>, <<>>, <<>>) }

Paths == {PipelineAgent, Api}

\* a file of the tree: where it lives, and for a release artifact the
\* release id of temp/<rel_id>
File(root, rel, comp, name) == [root |-> root, rel |-> rel, comp |-> comp, name |-> name]

Envs == {"staging", "prod"}

\* envs/<env>/settings.py after load_env_settings set the defaults
EnvSettings(env, comps, pull, replicas) ==
    [COMPONENTS |-> comps,
     KUBE_CONTEXT |-> IF env = "staging" THEN "ctx-staging" ELSE "ctx-prod",
     KUBE_NAMESPACE |-> IF env = "staging" THEN <<"ns-staging">> ELSE <<"ns-prod">>,
     IMAGE_PULL_SECRETS |-> pull,
     REPLICAS |-> replicas]

(***************************************************************************)
(* Component (src/devops/lib/component.py).                                *)
(***************************************************************************)
\* Component._path_to_name: path.replace("/", "-")
_path_to_name(path) == Replace(path, "/", "-")

\* a directory of a component: the working tree (rel = 0) or temp/<rel_id>
Dir(rel, comp) == [rel |-> rel, comp |-> comp]

\* Component._get_kube_configs: name -> path for <path>/kube/*.yaml
_get_kube_configs(path, tree) ==
    [i \in 1..Len(tree[path].kube) |->
        <<tree[path].kube[i], File("kube", 0, path, tree[path].kube[i])>>]

\* Component._get_obsolete_kube_configs: name -> path for <path>/kube/obsolete/*.yaml
_get_obsolete_kube_configs(path, tree) ==
    [i \in 1..Len(tree[path].obsolete) |->
        <<tree[path].obsolete[i], File("obsolete", 0, path, tree[path].obsolete[i])>>]

\* Component.__init__ (rollout_timeout is the attribute release() may add,
\* 0 while the object has none)
NewComponent(path, tree) ==
    [_resources |-> <<>>,
     context |-> "",
     image_pull_secrets |-> <<>>,
     image |-> <<>>,
     image_prefix |-> IMAGE_PREFIX,
     name |-> _path_to_name(path),
     namespace |-> <<>>,
     orig_path |-> path,
     path |-> Dir(0, path),
     tag |-> <<"latest">>,
     replicas |-> PyNone,
     rollout_timeout |-> 0,
     kube_configs |-> _get_kube_configs(path, tree),
     kube_merges |-> <<>>,
     obsolete_kube_configs |-> _get_obsolete_kube_configs(path, tree)]

\* the component no run has constructed yet
NoComponent == NewComponent(<<>>, [p \in {<<>>} |-> ComponentDir(FALSE, FALSE, <<>>, <<>>, <<>>)])

RECURSIVE SetAll(_, _, _, _)
\* kube_configs[name] = path for every name of names, in order
SetAll(d, names, comp, root) ==
    IF names = <<>> THEN d
    ELSE SetAll(DictSet(d, Head(names), File(root, 0, comp, Head(names))),
                Tail(names), comp, root)

\* Component.patch_from_env: the files under envs/<env>/overrides/<path>/kube
\* replace or add kube_configs entries; the environments of this model hold
\* no files under envs/<env>/merges, so kube_merges stays empty
patch_from_env(c, tree) ==
    [c EXCEPT !.kube_configs =
        SetAll(c.kube_configs, tree[c.orig_path].overrides, c.orig_path, "overrides")]

\* Component.get_docker_repository
get_docker_repository(c) == c.image_prefix \o c.name

\* Component._get_full_docker_name
_get_full_docker_name(c) == get_docker_repository(c) \o <<":">> \o c.tag

\* Component._get_resource_name
_get_resource_name(doc) == <<doc.kind, "/", doc.name>>

\* Component._get_selector: the first label as key=value, None without labels
_get_selector(doc) ==
    IF doc.labels = <<>> THEN <<"None">>
    ELSE <<doc.labels[1][1], "=", doc.labels[1][2]>>

\* Component._patch_generic
_patch_generic(c, doc) ==
    IF c.namespace # <<>> THEN [doc EXCEPT !.namespace = c.namespace] ELSE doc

\* the unpacking `image, tag = container["image"].split(":")` succeeds
SplitsInTwo(s, sep) == Len(Split(s, sep)) = 2

\* Component._patch_containers for one container image (ValueError unless
\* the image holds exactly one ":")
PatchImage(c, image) ==
    LET parts == Split(image, ":")
        ref == IF c.image # <<>> THEN c.image ELSE parts[1]
        tag == IF c.tag # <<>> THEN c.tag ELSE parts[2]
    IN ref \o <<":">> \o tag

\* Component._patch_containers: [err, doc]
_patch_containers(c, doc) ==
    IF \E i \in 1..Len(doc.containers) : ~SplitsInTwo(doc.containers[i], ":")
    THEN [err |-> "ValueError", doc |-> doc]
    ELSE [err |-> "none",
          doc |-> [doc EXCEPT !.containers =
                      [i \in 1..Len(doc.containers) |-> PatchImage(c, doc.containers[i])]]]

\* Component._patch_image_pull_secrets: [err, doc]
_patch_image_pull_secrets(c, doc) ==
    IF c.image = <<>> /\ doc.containers # <<>> /\ ~SplitsInTwo(doc.containers[1], ":")
    THEN [err |-> "ValueError", doc |-> doc]
    ELSE
      LET image == IF c.image # <<>> THEN c.image
                   ELSE IF doc.containers # <<>> THEN Split(doc.containers[1], ":")[1]
                   ELSE <<>>
      IN IF "/" \notin Range(image) THEN [err |-> "none", doc |-> doc]
         ELSE IF ~SplitsInTwo(image, "/") THEN [err |-> "ValueError", doc |-> doc]
         ELSE LET host == Split(image, "/")[1]
              IN IF DictHas(c.image_pull_secrets, host)
                 THEN [err |-> "none",
                       doc |-> [doc EXCEPT !.imagePullSecrets =
                                   <<DictGet(c.image_pull_secrets, host)>>]]
                 ELSE [err |-> "none", doc |-> doc]

\* Component._patch_replicas
_patch_replicas(c, doc) ==
    IF Truthy(c.replicas) THEN [doc EXCEPT !.replicas = c.replicas] ELSE doc

\* Component._patch_deployment, _patch_daemon_set, _patch_stateful_set
_patch_workload(c, doc) ==
    LET a == _patch_containers(c, doc)
        b == _patch_image_pull_secrets(c, a.doc)
    IN IF a.err # "none" THEN a
       ELSE IF b.err # "none" THEN b
       ELSE [err |-> "none", doc |-> _patch_replicas(c, b.doc)]

\* Component._patch_yaml_docs for one document: the documents are patched
\* in place, a skipped kind is left as it is
PatchDoc(c, doc) ==
    IF doc.kind \in SKIP_PATCH_KUBE_KINDS THEN [err |-> "none", doc |-> doc]
    ELSE IF doc.kind \in RESTART_RESOURCES THEN _patch_workload(c, _patch_generic(c, doc))
    ELSE [err |-> "none", doc |-> _patch_generic(c, doc)]

\* Component._patch_yaml_docs: [err, docs]
_patch_yaml_docs(c, docs) ==
    IF \E i \in 1..Len(docs) : PatchDoc(c, docs[i]).err # "none"
    THEN [err |-> PatchDoc(c, docs[CHOOSE i \in 1..Len(docs) :
                                      /\ PatchDoc(c, docs[i]).err # "none"
                                      /\ \A j \in 1..(i - 1) : PatchDoc(c, docs[j]).err = "none"]).err,
          docs |-> docs]
    ELSE [err |-> "none", docs |-> [i \in 1..Len(docs) |-> PatchDoc(c, docs[i]).doc]]

(***************************************************************************)
(* YAML documents and merge_docs (src/devops/lib/utils.py).  A loaded      *)
(* value is None, a str, an int, a dict (its items in insertion order) or  *)
(* a list; the text of a scalar is kept as a string s, the content of a    *)
(* dict or a list as the sequence v of its items, a list item having the   *)
(* empty key.  A node is a value as it is written in a file: a scalar,     *)
(* plain or quoted, a mapping or a sequence.                               *)
(***************************************************************************)
Item(k, v) == [k |-> k, v |-> v]
Elems(vals) == [i \in 1..Len(vals) |-> Item("", vals[i])]

YNone == [t |-> "none", s |-> "", v |-> <<>>]
YStr(text) == [t |-> "str", s |-> text, v |-> <<>>]
YInt(text) == [t |-> "int", s |-> text, v |-> <<>>]
YDict(items) == [t |-> "dict", s |-> "", v |-> items]
YList(vals) == [t |-> "list", s |-> "", v |-> Elems(vals)]
ListOf(items) == [t |-> "list", s |-> "", v |-> items]

Plain(text) == [t |-> "scalar", s |-> text, quoted |-> FALSE, v |-> <<>>]
Quoted(text) == [t |-> "scalar", s |-> text, quoted |-> TRUE, v |-> <<>>]
Mapping(items) == [t |-> "mapping", s |-> "", quoted |-> FALSE, v |-> items]
Sequence(nodes) == [t |-> "sequence", s |-> "", quoted |-> FALSE, v |-> Elems(nodes)]

\* the plain scalars the YAML resolver reads as integers
IntLiterals == {"0", "1", "2", "3", "7"}

RECURSIVE Loader(_)
\* yaml.load with Loader: a plain ~ or a missing value is None, a plain
\* number an int, every other scalar a str
Loader(node) ==
    CASE node.t = "mapping" ->
           YDict([i \in 1..Len(node.v) |-> Item(node.v[i].k, Loader(node.v[i].v))])
      [] node.t = "sequence" -> YList([i \in 1..Len(node.v) |-> Loader(node.v[i].v)])
      [] OTHER ->
           IF node.quoted THEN YStr(node.s)
           ELSE IF node.s \in {"~", ""} THEN YNone
           ELSE IF node.s \in IntLiterals THEN YInt(node.s)
           ELSE YStr(node.s)

RECURSIVE BaseLoader(_)
\* yaml.load with BaseLoader: every scalar is the str of its text
BaseLoader(node) ==
    CASE node.t = "mapping" ->
           YDict([i \in 1..Len(node.v) |-> Item(node.v[i].k, BaseLoader(node.v[i].v))])
      [] node.t = "sequence" -> YList([i \in 1..Len(node.v) |-> BaseLoader(node.v[i].v)])
      [] OTHER -> YStr(node.s)

\* key in d, d[key] and the items left by del d[key], for the items of a dict
HasKey(items, key) == \E i \in 1..Len(items) : items[i].k = key
ValueAt(items, key) == items[CHOOSE i \in 1..Len(items) : items[i].k = key].v
DelKey(items, key) == SelectSeq(items, LAMBDA e : e.k # key)

\* the outcome of a call: the exception raised, or the value returned
Ok(val) == [err |-> "none", val |-> val]
Fail(err) == [err |-> err, val |-> YNone]

\* type(x) in (str, int, bool, float, complex)
IsScalar(val) == val.t \in {"str", "int"}

\* x == "~" and x == "" for a loaded value
IsTilde(val) == val.t = "str" /\ val.s = "~"
IsEmptyStr(val) == val.t = "str" /\ val.s = ""

\* type(_overrides)()
EmptyOf(val) ==
    CASE val.t = "dict" -> YDict(<<>>)
      [] val.t = "list" -> YList(<<>>)
      [] val.t = "str" -> YStr("")
      [] val.t = "int" -> YInt("0")
      [] OTHER -> YNone

RECURSIVE _merge_part(_, _, _)
RECURSIVE MergeKeys(_, _, _, _, _)
RECURSIVE MergeItems(_, _, _, _, _)

\* merge_docs._merge_part._nest
_nest(doc, overrides, base_overrides) ==
    _merge_part(IF doc.t = "none" THEN EmptyOf(overrides) ELSE doc, overrides, base_overrides)

\* merge_docs._merge_part, type(doc) == dict: the loop over the keys of
\* base_overrides from the i-th on, with doc the items not yet deleted from
\* the source and res the result so far; then the items left in doc
MergeKeys(doc, overrides, base_overrides, i, res) ==
    IF base_overrides.t # "dict"
    THEN IF base_overrides.s = "" /\ base_overrides.v = <<>>
         THEN Ok(YDict(doc))
         ELSE Fail("TypeError")
    ELSE IF i > Len(base_overrides.v) THEN Ok(YDict(res \o doc))
    ELSE
      LET key == base_overrides.v[i].k
          b == base_overrides.v[i].v
          o == overrides.v[i].v
          rest == DelKey(doc, key)
          nested == _nest(IF HasKey(doc, key) THEN ValueAt(doc, key) ELSE YNone, o, b)
      IN IF IsTilde(b) THEN MergeKeys(rest, overrides, base_overrides, i + 1, res)
         ELSE IF IsEmptyStr(o)
         THEN IF HasKey(doc, key)
              THEN MergeKeys(rest, overrides, base_overrides, i + 1,
                             Append(res, Item(key, ValueAt(doc, key))))
              ELSE Fail("KeyError")
         ELSE IF IsScalar(o)
         THEN MergeKeys(rest, overrides, base_overrides, i + 1, Append(res, Item(key, o)))
         ELSE IF nested.err # "none" THEN nested
         ELSE MergeKeys(rest, overrides, base_overrides, i + 1,
                        Append(res, Item(key, nested.val)))

\* merge_docs._merge_part, type(doc) == list: the loop over base_overrides
\* from the i-th position on, then the items of doc beyond the overrides
MergeItems(doc, overrides, base_overrides, i, res) ==
    IF base_overrides.t = "str"
    THEN IF base_overrides.s = "" /\ overrides.t # "none" THEN Ok(ListOf(doc))
         ELSE Fail("TypeError")
    ELSE IF base_overrides.t = "dict"
    THEN IF base_overrides.v = <<>> THEN Ok(ListOf(doc))
         ELSE Fail("KeyError")
    ELSE IF i > Len(base_overrides.v)
    THEN Ok(ListOf(res \o (IF Len(doc) > Len(overrides.v)
                            THEN SubSeq(doc, Len(overrides.v) + 1, Len(doc))
                            ELSE <<>>)))
    ELSE
      LET b == base_overrides.v[i].v
          o == overrides.v[i].v
          nested == _nest(doc[i].v, o, b)
      IN IF i > Len(doc)
         THEN MergeItems(doc, overrides, base_overrides, i + 1, Append(res, Item("", o)))
         ELSE IF IsTilde(b) THEN MergeItems(doc, overrides, base_overrides, i + 1, res)
         ELSE IF IsEmptyStr(b)
         THEN MergeItems(doc, overrides, base_overrides, i + 1, Append(res, doc[i]))
         ELSE IF IsScalar(o)
         THEN MergeItems(doc, overrides, base_overrides, i + 1, Append(res, Item("", o)))
         ELSE IF nested.err # "none" THEN nested
         ELSE MergeItems(doc, overrides, base_overrides, i + 1,
                         Append(res, Item("", nested.val)))

\* merge_docs._merge_part
_merge_part(doc, overrides, base_overrides) ==
    IF doc.t = "dict" THEN MergeKeys(doc.v, overrides, base_overrides, 1, <<>>)
    ELSE IF doc.t = "list" THEN MergeItems(doc.v, overrides, base_overrides, 1, <<>>)
    ELSE Fail("NotImplementedError")

RECURSIVE MergeStream(_, _, _, _, _)
\* merge_docs, the loop over the documents of src from the i-th on
MergeStream(src, overrides, base_overrides, i, docs) ==
    IF i > Len(src) THEN [err |-> "none", docs |-> docs]
    ELSE IF i > Len(overrides) \/ i > Len(base_overrides)
    THEN [err |-> "IndexError", docs |-> <<>>]
    ELSE LET part == _merge_part(src[i], overrides[i], base_overrides[i])
         IN IF part.err # "none" THEN [err |-> part.err, docs |-> <<>>]
            ELSE MergeStream(src, overrides, base_overrides, i + 1, Append(docs, part.val))

\* merge_docs: [err, docs]
merge_docs(src, overrides, base_overrides) ==
    MergeStream(src, overrides, base_overrides, 1, <<>>)

RECURSIVE ValueEq(_, _)
\* a == b for loaded values: dicts are equal whatever the order of their
\* items, lists position by position
ValueEq(a, b) ==
    /\ a.t = b.t
    /\ CASE a.t = "dict" ->
              /\ Len(a.v) = Len(b.v)
              /\ \A i \in 1..Len(a.v) :
                   /\ HasKey(b.v, a.v[i].k)
                   /\ ValueEq(a.v[i].v, ValueAt(b.v, a.v[i].k))
         [] a.t = "list" ->
              /\ Len(a.v) = Len(b.v)
              /\ \A i \in 1..Len(a.v) : ValueEq(a.v[i].v, b.v[i].v)
         [] OTHER -> a.s = b.s

\* docs == other for streams of documents
DocsEq(docs, other) ==
    /\ Len(docs) = Len(other)
    /\ \A i \in 1..Len(docs) : ValueEq(docs[i], other[i])

(***************************************************************************)
(* State.                                                                  *)
(***************************************************************************)
VARIABLES
    args,         \* per run: the flags of `invoke release`
    randomId,     \* per run: the id generate_random_id draws in it
    repo,         \* the component directories of the working tree
    envs,         \* per environment: its settings module
    envSecrets,   \* the files under envs/<env>/secrets and secrets/obsolete
    run,          \* per run: the locals of the release in progress
    tempDirs,     \* the directories temp/<rel_id>/<component>/kube on disk
    tempFiles,    \* the manifests written under temp/, with their documents
    kubeContext,  \* the current context of the machine's kubectl configuration
    unit          \* a function called on its own: its arguments and results

inputs == <<args, randomId, repo, envs, envSecrets, unit>>
vars == <<args, randomId, repo, envs, envSecrets, run, tempDirs, tempFiles, kubeContext,
          unit>>

\* the release processes that may run on the machine
Runs == {1, 2}

(***************************************************************************)
(* Process Runner (src/devops/lib/utils.py run).                           *)
(***************************************************************************)
NoFile == File("none", 0, <<>>, "")

\* one invocation: the command, the file or the text it is about, and the
\* check and timeout arguments of run()
Call(cmd, file, what, check, timeout) ==
    [cmd |-> cmd, file |-> file, what |-> what, check |-> check, timeout |-> timeout]

\* what the child process can do: exit 0, exit nonzero, or outlive the timeout
Outcomes(call) == {"ok", "nonzero"} \cup (IF call.timeout > 0 THEN {"timeout"} ELSE {})

\* a run() that checks the exit status whatever check says
RunRaisesUnchecked(call, rc) ==
    CASE rc = "timeout" -> "TimeoutExpired"
      [] rc = "nonzero" -> "CalledProcessError"
      [] OTHER -> "none"

\* run() raises: subprocess.run raises CalledProcessError for a nonzero exit
\* under check, TimeoutExpired when the timeout elapses; run() re-raises
RunRaises(call, rc) ==
    CASE rc = "timeout" -> "TimeoutExpired"
      [] rc = "nonzero" /\ call.check -> "CalledProcessError"
      [] OTHER -> "none"

\* the record of an invocation a run made: the call, its outcome, where in
\* the release it was made (phase, index of the component) and the kubectl
\* context in force when it ran
Done(call, rc, phase, idx, ctx) ==
    [cmd |-> call.cmd, file |-> call.file, what |-> call.what, check |-> call.check,
     timeout |-> call.timeout, rc |-> rc, phase |-> phase, idx |-> idx, ctx |-> ctx]

(***************************************************************************)
(* Inputs: the command lines and working trees the runs are drawn from.    *)
(***************************************************************************)
ReleaseArgs(env, component, build, overrides, dry_run, keep_configs, no_rollout_wait) ==
    [env |-> env, component |-> component, build |-> build,
     image |-> overrides.image, tag |-> overrides.tag, replicas |-> overrides.replicas,
     dry_run |-> dry_run, keep_configs |-> keep_configs,
     no_rollout_wait |-> no_rollout_wait, rollout_timeout |-> <<>>]

\* the values of the repeatable --component flag
ComponentFlags ==
    { <<>>, <<Api>>, <<Api \o <<",", " ">> \o PipelineAgent>> }

\* the values of the repeatable --image, --tag and --replicas flags
NoOverrides == [image |-> <<>>, tag |-> <<>>, replicas |-> <<>>]

OverrideFlags ==
    { NoOverrides,
      [image |-> <<Api \o <<"=", "test-image">>>>,
       tag |-> <<Api \o <<"=", "v6.6.6">>>>,
       replicas |-> <<>>],
      [image |-> <<PipelineAgent \o <<"=", "test-image">>>>,
       tag |-> <<>>,
       replicas |-> <<Api \o <<"=", "77">>>>],
      [image |-> <<>>,
       tag |-> <<PipelineAgent \o <<"=", "v1.2.3">>>>,
       replicas |-> <<PipelineAgent \o <<"=", "77">>>>] }

PullSecrets == << <<Registry, <<"secret">>>> >>

\* the settings modules the environments are drawn from
SettingsChoices ==
    { [e \in Envs |-> EnvSettings(e, <<Api>>, PullSecrets, <<>>)],
      [e \in Envs |-> EnvSettings(e, <<Api, PipelineAgent>>, PullSecrets,
                                  << <<Api, PyInt(3)>> >>)] }

\* a file of envs/<env>/secrets: its stem, and whether its name ends with
\* UNSEALED_SECRETS_EXTENSION
SecretFile(stem, unsealed) == [stem |-> stem, unsealed |-> unsealed]

\* a secrets directory: n sealed secrets, each with its unsealed copy, and
\* n obsolete ones
SecretDir(n) ==
    [files |-> {SecretFile(i, u) : i \in 1..n, u \in BOOLEAN}, obsolete |-> 1..n]

NoUnprocessed == [images |-> {}, tags |-> {}, replicas |-> {}]

\* the locals of a release process at position pc, before it did anything
NewRun(pc) ==
    [pc |-> pc, cli_components |-> <<>>, components |-> <<>>,
     images |-> <<>>, tags |-> <<>>, replica_counts |-> <<>>,
     settings |-> EnvSettings("staging", <<>>, <<>>, <<>>),
     rel_id |-> 0, idx |-> 0, cursor |-> 0,
     component |-> NoComponent, resources |-> <<>>, items |-> <<>>, pods |-> <<>>,
     secrets |-> <<>>,
     log |-> <<>>, error |-> "none", unprocessed |-> NoUnprocessed]

\* no function is called on its own
NoUnit == [fn |-> "none", results |-> <<>>]

\* the state every specification starts a run from, given the inputs
Start(live) ==
    /\ run = [r \in Runs |-> IF r \in live THEN NewRun("cli") ELSE NewRun("idle")]
    /\ tempDirs = {}
    /\ tempFiles = {}
    /\ kubeContext = "ctx-other"

\* one release process, over all the inputs
Init ==
    /\ repo \in {[p \in Paths |-> IF p = Api THEN a ELSE b] : a \in ApiDirs, b \in AgentDirs}
    /\ envs \in SettingsChoices
    /\ envSecrets = SecretDir(MaxSecrets)
    /\ randomId = [r \in Runs |-> 1]
    /\ \E c \in ComponentFlags, o \in OverrideFlags, b, d, k, w \in BOOLEAN :
         args = [r \in Runs |-> ReleaseArgs("staging", c, b, o, d, k, w)]
    /\ Start({1})
    /\ unit = NoUnit

(***************************************************************************)
(* The release task of the command line (src/tasks.py release).            *)
(***************************************************************************)
\* how a run goes on: its locals become rec
Goto(r, rec) == run' = [run EXCEPT ![r] = rec]

\* an exception leaves the release: the process ends
Raise(rec, err) == [rec EXCEPT !.pc = "aborted", !.error = err]

\* [c.strip() for cs in component for c in cs.split(",")]
SplitComponents(component) ==
    Flatten([i \in 1..Len(component) |->
        LET cs == Split(component[i], ",")
        IN [j \in 1..Len(cs) |-> Strip(cs[j])]])

\* tasks.release up to the build: the components named on the command line
CliComponents(component) ==
    IF component = <<>> THEN ALL_COMPONENTS ELSE SplitComponents(component)

CliRelease(r) ==
    /\ run[r].pc = "cli"
    /\ Goto(r, [run[r] EXCEPT
                  !.cli_components = CliComponents(args[r].component),
                  !.pc = IF args[r].build THEN "build" ELSE "release",
                  !.idx = 1])
    /\ UNCHANGED <<inputs, tempDirs, tempFiles, kubeContext>>

\* run(call) at the current position of run r: the invocation is recorded;
\* if run() raises the release ends, else the run goes on as next
RunStep(r, call, phase, next) ==
    \E rc \in Outcomes(call) :
        LET logged == Append(run[r].log, Done(call, rc, phase, run[r].idx, kubeContext))
        IN Goto(r, IF RunRaises(call, rc) # "none"
                   THEN Raise([run[r] EXCEPT !.log = logged], RunRaises(call, rc))
                   ELSE [next EXCEPT !.log = logged])

\* Component.build of one component, as build_images calls it: docker build
\* unless there is no Dockerfile or the run is a dry run
BuildImage(r) ==
    LET me == run[r]
        c == NewComponent(me.cli_components[me.idx], repo)
        call == Call("docker build", NoFile, _get_full_docker_name(c), TRUE, 0)
        last == me.idx = Len(me.cli_components)
        next == [me EXCEPT !.idx = IF last THEN 1 ELSE me.idx + 1,
                           !.pc = IF last THEN "release" ELSE "build"]
    IN /\ me.pc = "build"
       /\ IF ~repo[c.orig_path].dockerfile \/ args[r].dry_run
          THEN Goto(r, next)
          ELSE RunStep(r, call, "build", next)
       /\ UNCHANGED <<inputs, tempDirs, tempFiles, kubeContext>>

(***************************************************************************)
(* The batch release (src/devops/tasks.py release).                        *)
(***************************************************************************)
RECURSIVE ParseFlags(_, _)
\* for i in flags: path, value = i.split("="); d[path] = value
\* ([err, d]: the unpacking raises ValueError unless there is one "=")
ParseFlags(flags, d) ==
    IF flags = <<>> THEN [err |-> "none", d |-> d]
    ELSE LET parts == Split(Head(flags), "=")
         IN IF Len(parts) # 2 THEN [err |-> "ValueError", d |-> d]
            ELSE ParseFlags(Tail(flags), DictSet(d, parts[1], parts[2]))

RECURSIVE OverrideReplicas(_, _)
\* for path in replica_counts: settings.REPLICAS[path] = replica_counts[path]
OverrideReplicas(replicas, replica_counts) ==
    IF replica_counts = <<>> THEN replicas
    ELSE OverrideReplicas(
            DictSet(replicas, Head(replica_counts)[1], PyStr(Head(replica_counts)[2])),
            Tail(replica_counts))

\* components = component if component else settings.COMPONENTS
EffectiveComponents(component, settings) ==
    IF component # <<>> THEN component ELSE settings.COMPONENTS

\* generate_random_id: five characters drawn with random.choice; the id
\* space is 1..NumRelIds here
generate_random_id(r) == randomId[r]

\* release, lines 146-199: the overrides are parsed, the release id drawn,
\* the settings loaded, the component list and the replica overrides set
ReleaseStart(r) ==
    LET me == run[r]
        images == ParseFlags(args[r].image, <<>>)
        tags == ParseFlags(args[r].tag, <<>>)
        replica_counts == ParseFlags(args[r].replicas, <<>>)
        settings == envs[args[r].env]
    IN /\ me.pc = "release"
       /\ IF images.err # "none" \/ tags.err # "none" \/ replica_counts.err # "none"
          THEN Goto(r, Raise(me, "ValueError"))
          ELSE   Goto(r, [me EXCEPT
                    !.pc = "context",
                    !.idx = 0,
                    !.images = images.d,
                    !.tags = tags.d,
                    !.replica_counts = replica_counts.d,
                    !.rel_id = generate_random_id(r),
                    !.components = EffectiveComponents(me.cli_components, settings),
                    !.settings = [settings EXCEPT
                        !.REPLICAS = OverrideReplicas(settings.REPLICAS, replica_counts.d)]])
       /\ UNCHANGED <<inputs, tempDirs, tempFiles, kubeContext>>

\* ensure_context: kubectl config use-context <context>
EnsureContext(r) ==
    LET me == run[r]
        call == Call("config use-context", NoFile, <<me.settings.KUBE_CONTEXT>>, TRUE, 0)
    IN /\ me.pc = "context"
       /\ \E rc \in Outcomes(call) :
            LET logged == Append(me.log, Done(call, rc, "context", me.idx, kubeContext))
            IN IF RunRaises(call, rc) # "none"
               THEN /\ Goto(r, Raise([me EXCEPT !.log = logged], RunRaises(call, rc)))
                    /\ UNCHANGED kubeContext
               ELSE /\ Goto(r, [me EXCEPT !.log = logged, !.pc = "namespace"])
                    /\ kubeContext' = IF rc = "ok" THEN me.settings.KUBE_CONTEXT
                                      ELSE kubeContext
       /\ UNCHANGED <<inputs, tempDirs, tempFiles>>

RECURSIVE Ascending(_)
\* sorted(): the numbers of a set in ascending order
Ascending(S) ==
    IF S = {} THEN <<>>
    ELSE LET m == CHOOSE x \in S : \A y \in S : x <= y
         IN <<m>> \o Ascending(S \ {m})

\* sorted(..., reverse=True)
Descending(S) == LET a == Ascending(S) IN [i \in 1..Len(a) |-> a[Len(a) + 1 - i]]

\* the path of a secrets file, <stem>.yaml or <stem>.unsealed.yaml (the
\* number of its stem stands in the place of the release id of a release
\* artifact)
SecretPath(root, f) ==
    File(root, f.stem, <<>>, IF f.unsealed THEN ".unsealed.yaml" ELSE ".yaml")

\* the place of a file in the order of the names: <stem>.unsealed.yaml comes
\* before <stem>.yaml, and both before the files of the next stem
SecretRank(f) == 2 * f.stem - (IF f.unsealed THEN 1 ELSE 0)

\* sorted(files)
SortedFiles(files) ==
    LET ranks == Ascending({SecretRank(f) : f \in files})
    IN [i \in 1..Len(ranks) |-> CHOOSE f \in files : SecretRank(f) = ranks[i]]

\* a filter that lets every name through
EndsWithUnsealedNever(f) == FALSE

\* secret_file.name.endswith(UNSEALED_SECRETS_EXTENSION)
EndsWithUnsealed(f) == f.unsealed

\* release_env: the sealed secrets to apply, sorted: every *.yaml under
\* envs/<env>/secrets whose name does not end with UNSEALED_SECRETS_EXTENSION
SecretsToApply(dir) == SortedFiles({g \in dir.files : ~EndsWithUnsealed(g)})

\* release_env: sorted(old_secrets, reverse=True), the *.yaml under
\* envs/<env>/secrets/obsolete
ObsoleteSecrets(dir) ==
    LET stems == Descending(dir.obsolete)
    IN [i \in 1..Len(stems) |-> SecretFile(stems[i], FALSE)]

\* ensure_namespace: kubectl create namespace <namespace>, with check=False;
\* release_env then lists the secrets to apply
EnsureNamespace(r) ==
    LET me == run[r]
        call == Call("create namespace", NoFile, me.settings.KUBE_NAMESPACE, FALSE, 0)
    IN /\ me.pc = "namespace"
       /\ RunStep(r, call, "namespace",
                  [me EXCEPT !.pc = "secrets", !.cursor = 1,
                             !.secrets = SecretsToApply(envSecrets)])
       /\ UNCHANGED <<inputs, tempDirs, tempFiles, kubeContext>>

\* release_env, first loop: kubectl apply -f <secret> for the next secret,
\* then the obsolete secrets are listed in descending order
ReleaseEnvApply(r) ==
    LET me == run[r]
        call == Call("apply", SecretPath("secrets", me.secrets[me.cursor]), <<>>, TRUE, 0)
        next == [me EXCEPT !.cursor = me.cursor + 1]
    IN /\ me.pc = "secrets"
       /\ IF me.cursor > Len(me.secrets)
          THEN Goto(r, [me EXCEPT !.pc = "old_secrets", !.cursor = 1,
                                  !.secrets = ObsoleteSecrets(envSecrets)])
          ELSE IF args[r].dry_run THEN Goto(r, next)
          ELSE RunStep(r, call, "secrets", next)
       /\ UNCHANGED <<inputs, tempDirs, tempFiles, kubeContext>>

\* release_env, second loop: kubectl delete -f <secret> for the next
\* obsolete secret; after the last one the component loop starts
ReleaseEnvDelete(r) ==
    LET me == run[r]
        call == Call("delete", SecretPath("old_secrets", me.secrets[me.cursor]), <<>>, TRUE, 0)
        next == [me EXCEPT !.cursor = me.cursor + 1]
    IN /\ me.pc = "old_secrets"
       /\ IF me.cursor > Len(me.secrets)
          THEN Goto(r, [me EXCEPT !.pc = "component", !.idx = 1, !.cursor = 0,
                                  !.secrets = <<>>])
          ELSE IF args[r].dry_run THEN Goto(r, next)
          ELSE RunStep(r, call, "secrets", next)
       /\ UNCHANGED <<inputs, tempDirs, tempFiles, kubeContext>>

\* a loop that walks the component list from its end
ComponentAtReversed(components, idx) == components[Len(components) + 1 - idx]

\* for path in components: the path of the idx-th pass of the loop
ComponentAt(components, idx) == components[idx]

\* release, lines 205-225: the next component is constructed, the overrides
\* for its path are taken (and removed from the pending ones), the
\* environment's files are laid over it, and validate() checks that it has
\* manifests; after the last component the release reports and cleans up
ComponentBegin(r) ==
    LET me == run[r]
        path == ComponentAt(me.components, me.idx)
        c0 == NewComponent(path, repo)
        c1 == [c0 EXCEPT
                 !.image = IF DictHas(me.images, path) THEN DictGet(me.images, path) ELSE @,
                 !.tag = IF DictHas(me.tags, path) THEN DictGet(me.tags, path) ELSE @,
                 !.replicas = IF DictHas(me.settings.REPLICAS, path)
                              THEN DictGet(me.settings.REPLICAS, path) ELSE @,
                 !.namespace = me.settings.KUBE_NAMESPACE,
                 !.context = me.settings.KUBE_CONTEXT,
                 !.image_pull_secrets = me.settings.IMAGE_PULL_SECRETS]
        c == patch_from_env(c1, repo)
        taken == [me EXCEPT
                    !.component = c,
                    !.images = DictPop(@, path),
                    !.tags = DictPop(@, path),
                    !.replica_counts = IF DictHas(me.settings.REPLICAS, path)
                                       THEN DictPop(@, path) ELSE @]
    IN /\ me.pc = "component"
       /\ IF me.idx > Len(me.components)
          THEN Goto(r, [me EXCEPT !.pc = "report"])
          ELSE IF c.kube_configs = <<>>
          THEN Goto(r, Raise(taken, "ValueError"))
          ELSE Goto(r, [taken EXCEPT !.pc = "validate", !.cursor = 1])
       /\ UNCHANGED <<inputs, tempDirs, tempFiles, kubeContext>>

\* the value of a decimal digit, and of a unit of time in seconds
Digit(ch) ==
    CASE ch = "0" -> 0 [] ch = "1" -> 1 [] ch = "2" -> 2 [] ch = "3" -> 3 [] ch = "4" -> 4
      [] ch = "5" -> 5 [] ch = "6" -> 6 [] ch = "7" -> 7 [] ch = "8" -> 8 [] ch = "9" -> 9
      [] OTHER -> -1

UnitSeconds(ch) ==
    CASE ch = "s" -> 1 [] ch = "m" -> 60 [] ch = "h" -> 3600 [] OTHER -> -1

RECURSIVE ParseDuration(_, _)
\* the seconds of <digits><unit>, read from the left with n the number so
\* far; -1 for a text that is no duration
ParseDuration(text, n) ==
    IF text = <<>> THEN -1
    ELSE IF Digit(Head(text)) >= 0 THEN ParseDuration(Tail(text), 10 * n + Digit(Head(text)))
    ELSE IF Len(text) = 1 /\ UnitSeconds(Head(text)) >= 0 THEN n * UnitSeconds(Head(text))
    ELSE -1

\* pytimeparse.parse for texts such as 90s, 2m, 1h: the seconds
pytimeparse_parse(text) ==
    IF text = <<>> \/ Digit(Head(text)) < 0 THEN -1 ELSE ParseDuration(text, 0)

\* release, lines 227-228: a rollout_timeout that is given is parsed and
\* stored on the component
SetRolloutTimeout(me, rollout_timeout) ==
    IF rollout_timeout # <<>>
    THEN [me EXCEPT !.component.rollout_timeout = pytimeparse_parse(rollout_timeout)]
    ELSE me

\* the exception Component.validate raises for the outcome of kubeval:
\* ValidationError for a returncode above 0 that run() handed back
ValidateRaises(call, rc) ==
    IF RunRaises(call, rc) # "none" THEN RunRaises(call, rc)
    ELSE IF rc = "nonzero" THEN "ValidationError"
    ELSE "none"

\* the call Component.validate makes for one manifest
KubevalCall(path) == Call("kubeval", path, <<>>, TRUE, 0)

\* Component.validate, the loop: kubeval on the next manifest
Validate(r) ==
    LET me == run[r]
        c == me.component
        call == KubevalCall(c.kube_configs[me.cursor][2])
    IN /\ me.pc = "validate"
       /\ IF me.cursor > Len(c.kube_configs)
          THEN Goto(r, SetRolloutTimeout([me EXCEPT !.pc = "prepare", !.cursor = 0],
                                         args[r].rollout_timeout))
          ELSE \E rc \in Outcomes(call) :
                 LET logged == Append(me.log, Done(call, rc, "validate", me.idx, kubeContext))
                 IN Goto(r, IF ValidateRaises(call, rc) # "none"
                            THEN Raise([me EXCEPT !.log = logged], ValidateRaises(call, rc))
                            ELSE [me EXCEPT !.log = logged, !.cursor = me.cursor + 1])
       /\ UNCHANGED <<inputs, tempDirs, tempFiles, kubeContext>>

\* the documents a manifest of an environment's overrides holds: the
\* component's manifest with another replica count
OverrideDocs(name) ==
    LET docs == SourceDocs(name)
    IN [i \in 1..Len(docs) |->
          IF docs[i].kind \in RESTART_RESOURCES
          THEN [docs[i] EXCEPT !.replicas = PyInt(5)] ELSE docs[i]]

\* is the file there, and what yaml.load_all reads from it
FileExists(file, files) ==
    file.root # "temp" \/ \E f \in files : f.file = file

FileDocs(file, files) ==
    CASE file.root = "temp" -> (CHOOSE f \in files : f.file = file).docs
      [] file.root = "overrides" -> OverrideDocs(file.name)
      [] OTHER -> SourceDocs(file.name)

\* Component._prepare_configs, the loop: how many manifests are patched and
\* written before one fails to patch (all of them if none fails)
Patchable(c, files) ==
    LET bad == {i \in 1..Len(c.kube_configs) :
                  _patch_yaml_docs(c, FileDocs(c.kube_configs[i][2], files)).err # "none"}
    IN IF bad = {} THEN Len(c.kube_configs)
       ELSE (CHOOSE i \in bad : \A j \in bad : i <= j) - 1

\* the manifest _prepare_configs writes for the i-th entry of kube_configs
Materialized(c, i, rel, files) ==
    [file |-> File("temp", rel, c.orig_path, c.kube_configs[i][1]),
     docs |-> _patch_yaml_docs(c, FileDocs(c.kube_configs[i][2], files)).docs]

\* Component._prepare_configs: temp/<rel_id>/<path>/kube is made (mkdir
\* fails on an existing directory), every manifest is loaded, patched and
\* dumped there, and kube_configs and path point into the release directory
PrepareConfigs(r) ==
    LET me == run[r]
        c == me.component
        n == Patchable(c, tempFiles)
        written == {Materialized(c, i, me.rel_id, tempFiles) : i \in 1..n}
        kept == {f \in tempFiles : \A w \in written : w.file # f.file}
        moved == [i \in 1..Len(c.kube_configs) |->
                    IF i <= n
                    THEN <<c.kube_configs[i][1],
                           File("temp", me.rel_id, c.orig_path, c.kube_configs[i][1])>>
                    ELSE c.kube_configs[i]]
    IN /\ me.pc = "prepare"
       /\ IF <<me.rel_id, c.orig_path>> \in tempDirs
          THEN /\ Goto(r, Raise(me, "FileExistsError"))
               /\ UNCHANGED <<tempDirs, tempFiles>>
          ELSE /\ tempDirs' = tempDirs \cup {<<me.rel_id, c.orig_path>>}
               /\ tempFiles' = kept \cup written
               /\ IF n < Len(c.kube_configs)
                  THEN Goto(r, Raise([me EXCEPT !.component.kube_configs = moved],
                                     "ValueError"))
                  ELSE Goto(r, [me EXCEPT
                                  !.component.kube_configs = moved,
                                  !.component.path = Dir(me.rel_id, c.orig_path),
                                  !.pc = "apply", !.cursor = 1])
       /\ UNCHANGED <<inputs, kubeContext>>

\* Component._release_kube_config
ApplyCall(path) == Call("apply", path, <<>>, TRUE, 0)

\* Component._do_release, first loop: kubectl apply -f for the next manifest
Apply(r) ==
    LET me == run[r]
        c == me.component
        next == [me EXCEPT !.cursor = me.cursor + 1]
    IN /\ me.pc = "apply"
       /\ IF me.cursor > Len(c.kube_configs)
          THEN Goto(r, [me EXCEPT !.pc = "delete", !.cursor = 1])
          ELSE IF args[r].dry_run THEN Goto(r, next)
          ELSE RunStep(r, ApplyCall(c.kube_configs[me.cursor][2]), "apply", next)
       /\ UNCHANGED <<inputs, tempDirs, tempFiles, kubeContext>>

\* Component._delete_kube_config
DeleteCall(path) == Call("delete", path, <<>>, TRUE, 0)

\* Component._do_release, second loop, the path handed to
\* _delete_kube_config for an obsolete manifest: self.kube_configs[config]
ObsoletePath(c, config) == DictGet(c.kube_configs, config)

\* the lookup self.kube_configs[config] raises KeyError for a missing key
ObsoleteLookupFails(c, config) == ~DictHas(c.kube_configs, config)

RECURSIVE IndexDocs(_, _)
\* Component._get_resources, the loop body over the documents read
IndexDocs(docs, index) ==
    IF docs = <<>> THEN index
    ELSE IndexDocs(Tail(docs),
                   DictSet(index, _get_resource_name(Head(docs)),
                           [name |-> Head(docs).name, kind |-> Head(docs).kind,
                            selector |-> _get_selector(Head(docs))]))

\* the index of the manifests kube_configs names
BuildResources(c, files) ==
    IndexDocs(Flatten([i \in 1..Len(c.kube_configs) |->
                          FileDocs(c.kube_configs[i][2], files)]), <<>>)

\* Component._get_resources: the cached index if it is not empty, else the
\* index built from the files kube_configs names
_get_resources(c, files) ==
    IF c._resources # <<>> THEN c._resources ELSE BuildResources(c, files)

\* a manifest _get_resources has to open is gone
ResourcesUnreadable(c, files) ==
    /\ c._resources = <<>>
    /\ \E i \in 1..Len(c.kube_configs) : ~FileExists(c.kube_configs[i][2], files)

\* Component._do_release, second loop: kubectl delete -f for the next
\* obsolete manifest; after the last one _restart_resources reads the index
Delete(r) ==
    LET me == run[r]
        c == me.component
        config == c.obsolete_kube_configs[me.cursor][1]
        next == [me EXCEPT !.cursor = me.cursor + 1]
        resources == _get_resources(c, tempFiles)
    IN /\ me.pc = "delete"
       /\ IF me.cursor > Len(c.obsolete_kube_configs)
          THEN IF ResourcesUnreadable(c, tempFiles)
               THEN Goto(r, Raise(me, "FileNotFoundError"))
               ELSE Goto(r, [me EXCEPT !.pc = "restart", !.cursor = 1,
                                       !.component._resources = resources,
                                       !.resources = resources])
          ELSE IF ObsoleteLookupFails(c, config) THEN Goto(r, Raise(me, "KeyError"))
          ELSE IF args[r].dry_run THEN Goto(r, next)
          ELSE RunStep(r, DeleteCall(ObsoletePath(c, config)), "delete", next)
       /\ UNCHANGED <<inputs, tempDirs, tempFiles, kubeContext>>

\* a restart phase that takes every kind
RestartableAny(kind) == TRUE

\* the kinds _restart_resources and _post_release act on
Restartable(kind) == kind \in RESTART_RESOURCES

\* after _restart_resources: _post_release returns at once without
\* post-release.sh, and the release loop takes the next component
AfterRestart(me, tree, files) ==
    IF ~tree[me.component.orig_path].post
    THEN [me EXCEPT !.pc = "component", !.idx = me.idx + 1, !.cursor = 0,
                    !.resources = <<>>]
    ELSE IF ResourcesUnreadable(me.component, files)
    THEN Raise(me, "FileNotFoundError")
    ELSE [me EXCEPT !.pc = "post", !.cursor = 1,
                    !.component._resources = _get_resources(me.component, files),
                    !.resources = _get_resources(me.component, files)]

\* Component._restart_resource: kubectl rollout restart for the next resource
\* of a restartable kind
Restart(r) ==
    LET me == run[r]
        res == me.resources[me.cursor]
        call == Call("rollout restart", NoFile, res[1], TRUE, 0)
        next == [me EXCEPT !.cursor = me.cursor + 1]
    IN /\ me.pc = "restart"
       /\ IF me.cursor > Len(me.resources)
          THEN Goto(r, AfterRestart(me, repo, tempFiles))
          ELSE IF ~Restartable(res[2].kind) \/ args[r].dry_run THEN Goto(r, next)
          ELSE RunStep(r, call, "restart",
                       IF args[r].no_rollout_wait THEN next ELSE [me EXCEPT !.pc = "status"])
       /\ UNCHANGED <<inputs, tempDirs, tempFiles, kubeContext>>

\* Component._restart_resource, the wait: kubectl rollout status with
\* timeout=ROLLOUT_TIMEOUT
Status(r) ==
    LET me == run[r]
        res == me.resources[me.cursor]
        call == Call("rollout status", NoFile, res[1], TRUE, ROLLOUT_TIMEOUT)
    IN /\ me.pc = "status"
       /\ RunStep(r, call, "restart", [me EXCEPT !.pc = "restart", !.cursor = me.cursor + 1])
       /\ UNCHANGED <<inputs, tempDirs, tempFiles, kubeContext>>

\* a pod of the answer of kubectl get pods: its name and the images of its
\* containers
Pod(name, images) == [name |-> name, images |-> images]

\* the answers kubectl get pods -o json can give for a component
PodLists(c) ==
    { <<>>,
      <<Pod("pod-1", <<_get_full_docker_name(c)>>)>>,
      <<Pod("pod-1", << <<"sidecar", ":", "latest">> >>),
        Pod("pod-2", << <<"sidecar", ":", "latest">>, _get_full_docker_name(c)>>)>> }

\* a selection that takes every listed pod, whatever its images
MatchingPodsAny(c, items) == [i \in 1..Len(items) |-> items[i].name]

\* Component._try_post_release: the names of the pods with a container of
\* the expected image, once per such container
MatchingPods(c, items) ==
    Flatten([i \in 1..Len(items) |->
        LET hits == SelectSeq(items[i].images, LAMBDA image : image = _get_full_docker_name(c))
        IN [j \in 1..Len(hits) |-> items[i].name]])

\* Component._try_post_release, first half: kubectl get pods for the next
\* restartable resource; without a matching pod the component fails
GetPods(r) ==
    LET me == run[r]
        c == me.component
        res == me.resources[me.cursor]
        call == Call("get pods", NoFile, res[2].selector, TRUE, 0)
        next == [me EXCEPT !.cursor = me.cursor + 1]
    IN /\ me.pc = "post"
       /\ IF me.cursor > Len(me.resources)
          THEN Goto(r, [me EXCEPT !.pc = "component", !.idx = me.idx + 1, !.cursor = 0,
                                  !.resources = <<>>])
          ELSE IF ~Restartable(res[2].kind) \/ args[r].dry_run THEN Goto(r, next)
          ELSE \E rc \in Outcomes(call), items \in PodLists(c) :
                 LET logged == [me EXCEPT !.items = IF rc = "ok" THEN items ELSE <<>>,
                                          !.log = Append(me.log,
                                    Done(call, rc, "post", me.idx, kubeContext))]
                 IN Goto(r, IF RunRaises(call, rc) # "none"
                            THEN Raise(logged, RunRaises(call, rc))
                            ELSE IF MatchingPods(c, items) = <<>>
                            THEN Raise(logged, "Exception")
                            ELSE [logged EXCEPT !.pc = "exec",
                                                !.pods = MatchingPods(c, items)])
       /\ UNCHANGED <<inputs, tempDirs, tempFiles, kubeContext>>

\* Component._try_post_release, second half: kubectl exec in a pod drawn
\* with random.choice, with check=False
Exec(r) ==
    LET me == run[r]
    IN /\ me.pc = "exec"
       /\ \E i \in 1..Len(me.pods) :
            RunStep(r, Call("exec", NoFile, <<me.pods[i]>>, FALSE, 0), "post",
                    [me EXCEPT !.pc = "post", !.cursor = me.cursor + 1, !.pods = <<>>])
       /\ UNCHANGED <<inputs, tempDirs, tempFiles, kubeContext>>

\* the paths of the overrides left when the component loop ends
Unprocessed(me) ==
    [images |-> Range(DictKeys(me.images)),
     tags |-> Range(DictKeys(me.tags)),
     replicas |-> Range(DictKeys(me.replica_counts))]

\* release, lines 232-250: the overrides no component took are logged as
\* errors, and temp/<rel_id> is removed unless keep_configs is set
Report(r) ==
    LET me == run[r]
    IN /\ me.pc = "report"
       /\ Goto(r, [me EXCEPT !.pc = "done", !.unprocessed = Unprocessed(me)])
       /\ IF ~args[r].keep_configs
          THEN /\ tempDirs' = {d \in tempDirs : d[1] # me.rel_id}
               /\ tempFiles' = {f \in tempFiles : f.file.rel # me.rel_id}
          ELSE UNCHANGED <<tempDirs, tempFiles>>
       /\ UNCHANGED <<inputs, kubeContext>>

(***************************************************************************)
(* Specification.                                                          *)
(***************************************************************************)
Step(r) ==
    \/ CliRelease(r)
    \/ BuildImage(r)
    \/ ReleaseStart(r)
    \/ EnsureContext(r)
    \/ EnsureNamespace(r)
    \/ ReleaseEnvApply(r)
    \/ ReleaseEnvDelete(r)
    \/ ComponentBegin(r)
    \/ Validate(r)
    \/ PrepareConfigs(r)
    \/ Apply(r)
    \/ Delete(r)
    \/ Restart(r)
    \/ Status(r)
    \/ GetPods(r)
    \/ Exec(r)
    \/ Report(r)

Next == \E r \in Runs : Step(r)

Spec == Init /\ [][Next]_vars

\* two release processes started from the same working tree, one per
\* environment, each drawing its own release id; the second is a dry run
InitConcurrent ==
    /\ repo = [p \in Paths |->
                 IF p = Api
                 THEN ComponentDir(TRUE, TRUE, <<"deployment.yaml">>, <<>>, <<>>)
                 ELSE ComponentDir(TRUE, FALSE, <<"agent.yaml">>, <<>>, <<>>)]
    /\ envs = [e \in Envs |-> EnvSettings(e, <<Api>>, PullSecrets, <<>>)]
    /\ envSecrets = SecretDir(0)
    /\ randomId \in [Runs -> 1..NumRelIds]
    /\ args = [r \in Runs |->
                 ReleaseArgs(IF r = 1 THEN "staging" ELSE "prod",
                             <<Api>>, r = 1, NoOverrides, r = 2, FALSE, FALSE)]
    /\ Start(Runs)
    /\ unit = NoUnit

SpecConcurrent == InitConcurrent /\ [][Next]_vars

\* the values of rollout_timeout a caller of devops.tasks.release passes
RolloutTimeouts == { <<"9", "0", "s">>, <<"2", "m">> }

\* the locals of a call of devops.tasks.release made without the command
\* line task: the caller passes the component list itself
LibraryRun(components) == [NewRun("release") EXCEPT !.cli_components = components]

\* a release started from the command line as a dry run with --build, and
\* a release a program starts by calling devops.tasks.release with a
\* rollout_timeout
InitLibrary ==
    /\ repo = [p \in Paths |->
                 IF p = Api
                 THEN ComponentDir(TRUE, TRUE, <<"deployment.yaml">>, <<>>, <<>>)
                 ELSE ComponentDir(TRUE, FALSE, <<"agent.yaml">>, <<>>, <<>>)]
    /\ envs = [e \in Envs |-> EnvSettings(e, <<Api>>, PullSecrets, <<>>)]
    /\ envSecrets = SecretDir(0)
    /\ randomId = [r \in Runs |-> r]
    /\ \E t \in RolloutTimeouts, w \in BOOLEAN :
         args = [r \in Runs |->
                   IF r = 1
                   THEN ReleaseArgs("staging", <<Api>>, TRUE, NoOverrides, TRUE, FALSE, FALSE)
                   ELSE [ReleaseArgs("staging", <<Api>>, FALSE, NoOverrides, FALSE, FALSE, w)
                           EXCEPT !.rollout_timeout = t]]
    /\ run = [r \in Runs |-> IF r = 1 THEN NewRun("cli") ELSE LibraryRun(<<Api>>)]
    /\ tempDirs = {}
    /\ tempFiles = {}
    /\ kubeContext = "ctx-other"
    /\ unit = NoUnit

SpecLibrary == InitLibrary /\ [][Next]_vars

(***************************************************************************)
(* Functions called on their own: merge_docs on streams of documents and   *)
(* the patches of Component on one manifest document.                      *)
(***************************************************************************)
\* the longest list of a document, and the most containers of a manifest
MaxItems == 2
MaxContainers == 2
\* documents in a stream
MaxDocs == 2
\* tags of a repository above MAX_TAGS
MaxExtraTags == 2
\* operations called on one Component object
MaxCalls == 3

\* the lists of at most n elements of S
Lists(S, n) == UNION {[1..k -> S] : k \in 0..n}

\* the source documents merge_docs is given
SrcScalars == {YStr("a"), YInt("1")}

SrcItems == SrcScalars \cup {YDict(<<Item("x", YStr("a"))>>)}

SrcValues ==
    SrcScalars
      \cup {YList(l) : l \in Lists(SrcItems, MaxItems)}
      \cup {YDict(<<>>), YDict(<<Item("x", YStr("a"))>>),
            YDict(<<Item("x", YStr("a")), Item("y", YInt("1"))>>)}

SrcDocs ==
    {YDict(<<Item("p", v)>>) : v \in SrcValues}
      \cup {YDict(<<Item("p", v), Item("q", YStr("b"))>>) : v \in SrcValues}

\* the override documents, as written in the files under envs/<env>/merges
OvLeaves == {Plain("~"), Plain(""), Quoted(""), Plain("new"), Plain("7")}

OvItems == OvLeaves \cup {Mapping(<<Item("x", Plain("~")), Item("z", Plain("new"))>>)}

OvValues ==
    OvLeaves
      \cup {Sequence(l) : l \in Lists(OvItems, MaxItems)}
      \cup {Mapping(<<Item("x", l)>>) : l \in OvLeaves}
      \cup {Mapping(<<Item("x", Plain("~")), Item("z", Plain("new"))>>),
            Mapping(<<Item("w", Sequence(<<Mapping(<<Item("x", Plain("~"))>>)>>))>>)}

OvDocs == {Mapping(<<Item(k, v)>>) : k \in {"p", "n"}, v \in OvValues}

\* the document streams of a manifest and of its merge file
SrcStreams == Lists({YDict(<<Item("p", YStr("a"))>>), YDict(<<Item("p", YList(<<YStr("a")>>))>>)}, MaxDocs)

OvStreams == Lists({Mapping(<<Item("p", Plain("new"))>>), Mapping(<<Item("n", Plain("7"))>>), Plain("")}, MaxDocs)

\* the manifests and the components the patches are given
PatchImages ==
    { <<"img", ":", "latest">>,
      <<"img">>,
      Registry \o <<"/", "img", ":", "latest">>,
      <<"host", ":", "5000", "/", "img", ":", "latest">>,
      Registry \o <<"/", "org", "/", "img", ":", "latest">> }

PatchDocs ==
    {[kind |-> k, name |-> "api", namespace |-> <<>>, replicas |-> PyInt(2),
      labels |-> << <<"app", "api">> >>, containers |-> cs, imagePullSecrets |-> ips] :
        k \in RESTART_RESOURCES \cup {"CronJob"}, cs \in Lists(PatchImages, MaxContainers),
        ips \in {<<>>, << <<"old">> >>}}

PatchTree == [p \in Paths |-> ComponentDir(FALSE, FALSE, <<"deployment.yaml">>, <<>>, <<>>)]

PatchComponents ==
    {[NewComponent(Api, PatchTree) EXCEPT
        !.image = image, !.tag = tag, !.replicas = replicas, !.image_pull_secrets = ips] :
        image \in {<<>>, <<"test-image">>, Registry \o <<"/", "test-image">>,
                   Registry \o <<"/", "org", "/", "test-image">>},
        tag \in {<<>>, <<"v1">>},
        replicas \in {PyNone, PyInt(0), PyInt(77), PyStr(<<"77">>)},
        ips \in {<<>>, PullSecrets}}

\* a tag <branch>-<hash>-<YYYYMMDD>-<HHMMSS> of a repository, the branch
\* with its hash, the date and the time as numbers
Tag(branch, date, time) == [branch |-> branch, date |-> date, time |-> time]

\* _sort_tag(a) < _sort_tag(b): the keys <date>-<time>-<branch>-<hash>
\* compared as strings, fields of the same width
SortTagLess(a, b) ==
    \/ a.date < b.date
    \/ a.date = b.date /\ a.time < b.time
    \/ a.date = b.date /\ a.time = b.time /\ a.branch < b.branch

RECURSIVE SortedTags(_)
\* sorted(tags, key=_sort_tag)
SortedTags(tags) ==
    IF tags = {} THEN <<>>
    ELSE LET m == CHOOSE x \in tags : \A y \in tags \ {x} : SortTagLess(x, y)
         IN <<m>> \o SortedTags(tags \ {m})

\* sorted(tags, key=_sort_tag)[MAX_TAGS:]
TagsToDelete(tags) ==
    LET sorted == SortedTags(tags) IN SubSeq(sorted, MAX_TAGS + 1, Len(sorted))

\* the repositories cleaned up: n tags pushed from two branches, some of
\* them on the same date
TagCounts == {0, 1, MAX_TAGS - 1} \cup (MAX_TAGS..(MAX_TAGS + MaxExtraTags))

Repository(n, first) == {Tag(1 + ((i + first) % 2), i \div 3, i % 3) : i \in 1..n}

\* the working trees of a component whose operations are called in any
\* order: manifests under kube, and under the overrides of the environment
\* no manifest, another deployment.yaml, or a service.yaml kube has not
IndexTrees ==
    {[p \in Paths |-> ComponentDir(FALSE, FALSE, kube, <<>>, overrides)] :
        kube \in {<<>>, <<"deployment.yaml">>, <<"deployment.yaml", "service.yaml">>},
        overrides \in {<<>>, <<"deployment.yaml">>, <<"service.yaml">>}}

\* the kinds of template a component has
TEMPLATE_KINDS == {"merge", "override"}

\* TEMPLATE_HEADER.format(file=<path>/kube/<kind>-templates/<name>): the four
\* comment lines, the path in its parts
TEMPLATE_HEADER(kind, name) ==
    <<"#\n", "# THIS FILE HAS BEEN AUTOMATICALLY GENERATED FROM ", kind, "-templates/", name,
      "\n", "# DO NOT MODIFY THIS FILE BY HAND\n", "#\n">>

\* content.startswith(prefix)
startswith(content, prefix) ==
    /\ Len(content) >= Len(prefix)
    /\ SubSeq(content, 1, Len(prefix)) = prefix

\* the file names of the templates and of the files of an output directory
TemplateNames == {"deployment.yaml", "service.yaml"}

\* jinja2.Template(content, undefined=StrictUndefined).render(jinja_context)
\* succeeds: the template names no variable the settings do not define
Renders(text) == "{{ missing }}" \notin Range(text)

\* the file render_template_kind writes for a template
RenderedFile(kind, t) ==
    [name |-> t.name, content |-> TEMPLATE_HEADER(kind, t.name) \o t.text \o <<"\n">>]

\* files after output_file.open(mode="w") and f.write(content) for each
\* of the templates ts
WriteRendered(kind, files, ts) ==
    {f \in files : \A t \in ts : t.name # f.name} \cup {RenderedFile(kind, t) : t \in ts}

\* what a file of the output directory of a kind may hold before the call:
\* a manually authored manifest, a file rendered earlier from its template,
\* or a rendered file copied from the directory of the other kind
OldContents(kind, name) ==
    { <<"kind: Service\n">>,
      TEMPLATE_HEADER(kind, name) \o <<"replicas: 1\n">>,
      TEMPLATE_HEADER(CHOOSE k \in TEMPLATE_KINDS : k # kind, name) \o <<"replicas: 1\n">> }

\* the files of a directory have different names
UniqueNames(d) == \A f, g \in d : f.name = g.name => f = g

\* the output directories envs/<env>/<kind>s/<path>/kube before the call
OutputDirs(kind) ==
    {d \in SUBSET UNION {{[name |-> n, content |-> c] : c \in OldContents(kind, n)} :
                            n \in TemplateNames} : UniqueNames(d)}

\* the texts of a template, one of them naming an undefined variable
TemplateTexts == { <<"replicas: 2">>, <<"replicas: ", "{{ missing }}">> }

\* the directories <path>/kube/<kind>-templates
TemplateDirs ==
    {d \in SUBSET {[name |-> n, text |-> t] : n \in TemplateNames, t \in TemplateTexts} :
        UniqueNames(d)}

\* A secret value is a str, written as the sequence of the code points of
\* its characters
\* the character of the base64 alphabet for a digit 0..63
B64Char(d) ==
    IF d < 26 THEN 65 + d
    ELSE IF d < 52 THEN 97 + (d - 26)
    ELSE IF d < 62 THEN 48 + (d - 52)
    ELSE IF d = 62 THEN 43 ELSE 47

\* the digit of a character of the base64 alphabet
B64Digit(ch) == CHOOSE d \in 0..63 : B64Char(d) = ch

\* "=", the padding of the last group
B64Pad == 61

RECURSIVE utf8_encode(_)
\* value.encode("utf-8") for characters below U+0800: one byte for ASCII,
\* two for the others
utf8_encode(str) ==
    IF str = <<>> THEN <<>>
    ELSE (IF Head(str) < 128 THEN <<Head(str)>>
          ELSE <<192 + (Head(str) \div 64), 128 + (Head(str) % 64)>>)
         \o utf8_encode(Tail(str))

RECURSIVE utf8_decode(_)
\* bytes.decode("utf-8") of what utf8_encode wrote
utf8_decode(bs) ==
    IF bs = <<>> THEN <<>>
    ELSE IF Head(bs) < 128 THEN <<Head(bs)>> \o utf8_decode(Tail(bs))
    ELSE <<(Head(bs) - 192) * 64 + (bs[2] - 128)>> \o utf8_decode(SubSeq(bs, 3, Len(bs)))

RECURSIVE b64encode(_)
\* base64.b64encode(value): three bytes make four digits, the last group is
\* padded
b64encode(bs) ==
    IF Len(bs) = 0 THEN <<>>
    ELSE IF Len(bs) = 1
    THEN <<B64Char(bs[1] \div 4), B64Char((bs[1] % 4) * 16), B64Pad, B64Pad>>
    ELSE IF Len(bs) = 2
    THEN <<B64Char(bs[1] \div 4), B64Char((bs[1] % 4) * 16 + bs[2] \div 16),
           B64Char((bs[2] % 16) * 4), B64Pad>>
    ELSE <<B64Char(bs[1] \div 4), B64Char((bs[1] % 4) * 16 + bs[2] \div 16),
           B64Char((bs[2] % 16) * 4 + bs[3] \div 64), B64Char(bs[3] % 64)>>
         \o b64encode(SubSeq(bs, 4, Len(bs)))

\* base64.b64decode(value) does not raise binascii.Error: groups of four
\* characters of the alphabet, padding only at the end of the last group
B64Valid(cs) ==
    /\ Len(cs) % 4 = 0
    /\ \A i \in 1..Len(cs) :
          \/ \E d \in 0..63 : B64Char(d) = cs[i]
          \/ /\ cs[i] = B64Pad
             /\ i > Len(cs) - 2
             /\ \A j \in i..Len(cs) : cs[j] = B64Pad

RECURSIVE b64decode(_)
\* base64.b64decode(value) of a valid value: four digits make three bytes,
\* a padded group one or two
b64decode(cs) ==
    IF Len(cs) = 0 THEN <<>>
    ELSE LET d1 == B64Digit(cs[1])
             d2 == B64Digit(cs[2])
             b1 == d1 * 4 + d2 \div 16
         IN IF cs[3] = B64Pad THEN <<b1>>
            ELSE LET d3 == B64Digit(cs[3])
                     b2 == (d2 % 16) * 16 + d3 \div 4
                 IN IF cs[4] = B64Pad THEN <<b1, b2>>
                    ELSE <<b1, b2, (d3 % 4) * 64 + B64Digit(cs[4])>>
                         \o b64decode(SubSeq(cs, 5, Len(cs)))

\* "\n"
LF == 10

\* The text of a Secret manifest, line by line.  A line is the key of a data
\* entry with its scalar, a line of a literal block scalar (an empty one is
\* a blank line), or a line the transforms do not look into.
KeyLine(key, style, hint, s) ==
    [k |-> "key", key |-> key, style |-> style, hint |-> hint, s |-> s]

BlockLine(s) == [k |-> "block", key |-> "", style |-> "", hint |-> "", s |-> s]

OtherLine(text) == [k |-> text, key |-> "", style |-> "", hint |-> "", s |-> <<>>]

\* the lines of a literal block scalar: every line break ends a line
BlockLines(s) ==
    LET pieces == Split(s, LF)
        lines == IF Last(pieces) = <<>> THEN SubSeq(pieces, 1, Len(pieces) - 1)
                 ELSE pieces
    IN [i \in 1..Len(lines) |-> BlockLine(lines[i])]

\* the chomping indicator the emitter writes after "|": strip when the text
\* does not end in a line break, keep when it ends in more than one
BlockHint(s) ==
    IF s[Len(s)] # LF THEN "-"
    ELSE IF Len(s) = 1 \/ s[Len(s) - 1] = LF THEN "+"
    ELSE ""

\* the lines ruamel_yaml.dump writes for one entry <<key, value, literal>>
\* of data: nothing after the key for None, a literal block scalar for a
\* LiteralScalarString, else the scalar on the line of the key, quoted
\* when it is empty
DumpEntry(e) ==
    IF e[2] = PyNone THEN <<KeyLine(e[1], "null", "", <<>>)>>
    ELSE IF e[3]
    THEN <<KeyLine(e[1], "literal", BlockHint(e[2].s), <<>>)>> \o BlockLines(e[2].s)
    ELSE <<KeyLine(e[1], IF e[2].s = <<>> THEN "quoted" ELSE "plain", "", e[2].s)>>

\* the document ends in a block scalar that keeps its trailing line breaks
OpenEnded(secrets) ==
    /\ ~secrets.kind
    /\ secrets.data # <<>>
    /\ LET e == Last(secrets.data)
       IN e[2] # PyNone /\ e[3] /\ BlockHint(e[2].s) = "+"

\* ruamel_yaml.dump(secrets, stream): the entries of data in their order,
\* the keys that follow data, and the document end marker after an open
\* ended scalar
Dump(secrets) ==
    <<OtherLine("data:")>>
    \o Flatten([i \in 1..Len(secrets.data) |-> DumpEntry(secrets.data[i])])
    \o (IF secrets.kind THEN <<OtherLine("kind: Secret")>> ELSE <<>>)
    \o (IF OpenEnded(secrets) THEN <<OtherLine("...")>> ELSE <<>>)

\* ch.isspace() for the characters of the texts
IsSpace(ch) == ch \in {9, LF, 11, 12, 13, 32, 133, 160}

RECURSIVE RStripChars(_)
\* s.rstrip() within a line
RStripChars(s) ==
    IF s # <<>> /\ IsSpace(Last(s)) THEN RStripChars(SubSeq(s, 1, Len(s) - 1)) ELSE s

RECURSIVE RStripLines(_)
\* text.rstrip() + "\n": the white space at the end of the text goes, the
\* blank lines and the white space that ends the last line of a block scalar
\* or a plain scalar; a quote or the document end marker stops it
RStripLines(lines) ==
    IF lines = <<>> THEN lines
    ELSE LET l == Last(lines)
             front == SubSeq(lines, 1, Len(lines) - 1)
             s == RStripChars(l.s)
         IN IF l.k = "block"
            THEN IF s = <<>> THEN RStripLines(front) ELSE Append(front, BlockLine(s))
            ELSE IF l.k = "key" /\ l.style = "plain"
            THEN Append(front, IF s = <<>> THEN KeyLine(l.key, "null", "", <<>>)
                               ELSE KeyLine(l.key, "plain", "", s))
            ELSE lines

RECURSIVE DropBlankLines(_)
\* a block scalar without the blank lines that end it
DropBlankLines(block) ==
    IF block # <<>> /\ Last(block) = BlockLine(<<>>)
    THEN DropBlankLines(SubSeq(block, 1, Len(block) - 1))
    ELSE block

RECURSIVE JoinLines(_)
\* every line followed by a line break
JoinLines(lines) ==
    IF lines = <<>> THEN <<>> ELSE Head(lines).s \o <<LF>> \o JoinLines(Tail(lines))

\* the value of a literal block scalar: keep leaves every line break, clip
\* the one of the last line that is not blank, strip none
Chomp(hint, block) ==
    IF hint = "+" THEN JoinLines(block)
    ELSE LET text == JoinLines(DropBlankLines(block))
         IN IF hint = "-" /\ text # <<>> THEN SubSeq(text, 1, Len(text) - 1) ELSE text

RECURSIVE BlockCount(_)
\* the lines of the block scalar a text goes on with
BlockCount(lines) ==
    IF lines # <<>> /\ Head(lines).k = "block" THEN 1 + BlockCount(Tail(lines)) ELSE 0

RECURSIVE LoadEntries(_)
\* the entries of data, read from the lines after "data:"
LoadEntries(lines) ==
    IF lines = <<>> \/ Head(lines).k # "key" THEN <<>>
    ELSE LET h == Head(lines)
             n == BlockCount(Tail(lines))
             value == IF h.style = "null" THEN PyNone
                      ELSE IF h.style = "literal"
                      THEN PyStr(Chomp(h.hint, SubSeq(lines, 2, n + 1)))
                      ELSE PyStr(h.s)
         IN << <<h.key, value, h.style = "literal">> >>
            \o LoadEntries(SubSeq(lines, n + 2, Len(lines)))

\* ruamel_yaml.load(content)
Load(content) ==
    [data |-> LoadEntries(Tail(content)),
     kind |-> \E i \in 1..Len(content) : content[i].k = "kind: Secret"]

\* base64_encode_secrets(content): every value of data that is not None is
\* replaced by the PlainScalarString of its base64 encoding
base64_encode_secrets(content) ==
    LET secrets == Load(content)
        data == [i \in 1..Len(secrets.data) |->
                   LET e == secrets.data[i]
                   IN IF e[2] = PyNone THEN e
                      ELSE <<e[1], PyStr(utf8_decode(b64encode(utf8_encode(e[2].s)))), FALSE>>]
    IN RStripLines(Dump([secrets EXCEPT !.data = data]))

\* base64_decode_secrets does not raise: every value is base64
Decodable(content) ==
    \A e \in Range(Load(content).data) : e[2] # PyNone => B64Valid(e[2].s)

\* base64_decode_secrets(content): every value of data that is not None is
\* replaced by its decoding, a LiteralScalarString when it has a line break
base64_decode_secrets(content) ==
    LET secrets == Load(content)
        data == [i \in 1..Len(secrets.data) |->
                   LET e == secrets.data[i]
                       value == utf8_decode(b64decode(utf8_encode(e[2].s)))
                   IN IF e[2] = PyNone THEN e
                      ELSE <<e[1], PyStr(value), LF \in Range(value)>>]
    IN RStripLines(Dump([secrets EXCEPT !.data = data]))

\* the values of the entries of a Secret: None, the empty string, one
\* line with and without its line break, trailing blank lines, two lines,
\* and a value that ends in a no-break space (U+00A0)
SecretValues ==
    {PyNone} \cup {PyStr(v) : v \in {<<>>, <<97>>, <<97, LF>>, <<97, LF, LF>>, <<LF>>,
                                      <<97, LF, 97>>, <<97, 160>>}}

\* a text without its document end marker
WithoutMarker(lines) == LET Kept(l) == l.k # "..." IN SelectSeq(lines, Kept)

\* a value as an editor of the unsealed file writes it: a block scalar when
\* it has a line break
Entry(key, value) == <<key, value, value # PyNone /\ LF \in Range(value.s)>>

\* the unsealed Secret manifests: one or two entries of data, data the last
\* key of the document or not, the document end marker written or not
SecretTexts ==
    LET docs == {[data |-> d, kind |-> kind] :
                   d \in {<<Entry("password", v)>> : v \in SecretValues}
                         \cup {<<Entry("password", v), Entry("user", w)>> :
                                 v \in SecretValues, w \in SecretValues},
                   kind \in BOOLEAN}
    IN {Dump(doc) : doc \in docs} \cup {WithoutMarker(Dump(doc)) : doc \in docs}

\* The ciphertext kubeseal writes for a value: every sealing encrypts anew,
\* so the ciphertexts of two sealings differ also for the same value
Cipher(plain, sealing) == [plain |-> plain, sealing |-> sealing]

\* kube_seal(content, cert): the SealedSecret of a Secret manifest, an entry
\* of spec.encryptedData for every entry of data
kube_seal(content, sealing) ==
    LET data == Load(content).data
    IN [i \in 1..Len(data) |-> <<data[i][1], Cipher(data[i][2].s, sealing)>>]

\* kube_unseal(content, master_key, cert): the Secret manifest of a
\* SealedSecret, its data base64 as it was sealed
kube_unseal(sealed) ==
    RStripLines(Dump([data |-> [i \in 1..Len(sealed) |->
                                  <<sealed[i][1], PyStr(sealed[i][2].plain), FALSE>>],
                      kind |-> TRUE]))

\* yaml.safe_load(content)["data"]
SafeLoadData(content) ==
    LET data == Load(content).data
    IN [i \in 1..Len(data) |-> <<data[i][1], data[i][2]>>]

\* a revert that does not compare the values
RevertAlways(original, key, value) == DictHas(original, key)

\* the condition of _revert_unchanged_secrets, line 427
Unchanged(original, key, value) == DictHas(original, key) /\ DictGet(original, key) = value

RECURSIVE RevertFrom(_, _, _, _, _)
\* the loop of _revert_unchanged_secrets from entry i of the new data on
RevertFrom(i, new, new_sealed, original, sealed_original) ==
    IF i > Len(new) THEN new_sealed
    ELSE RevertFrom(i + 1, new,
                    IF Unchanged(original, new[i][1], new[i][2])
                    THEN DictSet(new_sealed, new[i][1], DictGet(sealed_original, new[i][1]))
                    ELSE new_sealed,
                    original, sealed_original)

\* _revert_unchanged_secrets(new_content, new_sealed_content, original_content,
\* sealed_original_content), the sealed documents as their spec.encryptedData
_revert_unchanged_secrets(new_content, new_sealed, original_content, sealed_original) ==
    RevertFrom(1, SafeLoadData(new_content), new_sealed,
               SafeLoadData(original_content), sealed_original)

\* the keys of the secrets sealed
SecretKeys == <<"cert", "password", "token", "user">>

\* the unsealed manifests of a secret file: some of the keys, each with one
\* of two values
UnsealedTexts ==
    {Dump([data |-> LET keys == SelectSeq(SecretKeys, LAMBDA k : v[k] # PyNone)
                    IN [i \in 1..Len(keys) |-> Entry(keys[i], v[keys[i]])],
           kind |-> TRUE]) :
        v \in [Range(SecretKeys) -> {PyNone, PyStr(<<97>>), PyStr(<<97, LF>>)}]}

\* the sealed file of a secret: missing, or what sealing an unsealed
\* manifest wrote
NoSealedFile == [exists |-> FALSE, encryptedData |-> <<>>]

SealedFile(encryptedData) == [exists |-> TRUE, encryptedData |-> encryptedData]

\* no release runs; one function is about to be called on its arguments
InitFunctions ==
    /\ repo \in {PatchTree} \cup IndexTrees
    /\ envs = [e \in Envs |-> EnvSettings(e, <<Api>>, PullSecrets, <<>>)]
    /\ envSecrets = SecretDir(0)
    /\ randomId = [r \in Runs |-> r]
    /\ args = [r \in Runs |->
                 ReleaseArgs("staging", <<>>, FALSE, NoOverrides, FALSE, FALSE, FALSE)]
    /\ Start({})
    /\ \/ unit = [fn |-> "Component", c |-> NewComponent(Api, repo), calls |-> <<>>,
                   returned |-> <<>>, results |-> <<>>]
       \/ \E src \in SrcDocs, o \in OvDocs :
            unit = [fn |-> "merge_docs", src |-> <<src>>, overrides |-> <<o>>,
                    results |-> <<>>]
       \/ \E src \in SrcStreams, o \in OvStreams :
            unit = [fn |-> "merge_docs (streams)", src |-> src, overrides |-> o,
                    results |-> <<>>]
       \/ \E n \in TagCounts, first \in 0..1 :
            unit = [fn |-> "cleanup_acr_repository", tags |-> Repository(n, first),
                    repository |-> Repository(n, first), doomed |-> <<>>,
                    deleted |-> {}, pc |-> "show-tags", results |-> <<>>]
       \/ \E c \in PatchComponents, doc \in PatchDocs :
            unit = [fn |-> "patch", c |-> c, doc |-> doc, results |-> <<>>]
       \/ \E only_changed \in BOOLEAN, input \in UnsealedTexts :
            \E prior \in UnsealedTexts \cup {<<>>} :
              LET output_file ==
                      IF prior = <<>> THEN NoSealedFile
                      ELSE SealedFile(kube_seal(base64_encode_secrets(prior), 0))
              IN unit = [fn |-> "seal_secrets", only_changed |-> only_changed,
                         input |-> input, prior |-> prior, original |-> output_file,
                         output_file |-> output_file, err |-> "none", results |-> <<>>]
       \/ \E content \in SecretTexts :
            unit = [fn |-> "base64_encode_secrets", content |-> content, err |-> "none",
                    results |-> <<>>]
       \/ \E kind \in TEMPLATE_KINDS : \E d \in OutputDirs(kind), ts \in TemplateDirs :
            unit = [fn |-> "render_template_kind", kind |-> kind, old |-> d,
                    output |-> d, kube_templates |-> ts, results |-> <<>>]
    /\ unit.fn # "Component" => repo = PatchTree

\* merge_docs(src, overrides, base_overrides) with the overrides loaded by
\* both loaders, as _prepare_configs loads them; a second call merges the
\* same overrides into the result of the first
MergeDocs ==
    LET src == IF unit.results = <<>> THEN unit.src ELSE unit.results[1].docs
        overrides == [i \in 1..Len(unit.overrides) |-> Loader(unit.overrides[i])]
        base_overrides == [i \in 1..Len(unit.overrides) |-> BaseLoader(unit.overrides[i])]
    IN /\ unit.fn \in {"merge_docs", "merge_docs (streams)"}
       /\ Len(unit.results) < 2
       /\ unit.results # <<>> => unit.results[1].err = "none"
       /\ unit' = [unit EXCEPT !.results = Append(@, merge_docs(src, overrides, base_overrides))]
       /\ UNCHANGED <<args, randomId, repo, envs, envSecrets, run, tempDirs, tempFiles,
                      kubeContext>>

\* _patch_containers, _patch_image_pull_secrets, _patch_replicas and
\* _patch_yaml_docs, each called on the document
Patch ==
    /\ unit.fn = "patch"
    /\ unit.results = <<>>
    /\ unit' = [unit EXCEPT !.results =
                  <<[containers |-> _patch_containers(unit.c, unit.doc),
                     secrets |-> _patch_image_pull_secrets(unit.c, unit.doc),
                     replicas |-> _patch_replicas(unit.c, unit.doc),
                     docs |-> _patch_yaml_docs(unit.c, <<unit.doc>>)]>>]
    /\ UNCHANGED <<args, randomId, repo, envs, envSecrets, run, tempDirs, tempFiles,
                   kubeContext>>

\* cleanup_acr_repository, lines 350-375: az acr repository show-tags, then
\* the tags to delete are picked
ShowTags ==
    /\ unit.fn = "cleanup_acr_repository"
    /\ unit.pc = "show-tags"
    /\ \E rc \in {"ok", "nonzero"} :
         unit' = IF rc = "ok"
                 THEN [unit EXCEPT !.pc = "delete", !.doomed = TagsToDelete(unit.repository)]
                 ELSE [unit EXCEPT !.pc = "aborted"]
    /\ UNCHANGED <<args, randomId, repo, envs, envSecrets, run, tempDirs, tempFiles,
                   kubeContext>>

\* cleanup_acr_repository, lines 375-389: az acr repository delete --image
\* <repository>:<tag> for the next tag; a failed delete raises and ends the task
DeleteTag ==
    /\ unit.fn = "cleanup_acr_repository"
    /\ unit.pc = "delete"
    /\ IF unit.doomed = <<>>
       THEN unit' = [unit EXCEPT !.pc = "done"]
       ELSE \E rc \in {"ok", "nonzero"} :
              unit' = IF rc = "ok"
                      THEN [unit EXCEPT !.repository = @ \ {Head(unit.doomed)},
                                        !.deleted = @ \cup {Head(unit.doomed)},
                                        !.doomed = Tail(@)]
                      ELSE [unit EXCEPT !.pc = "aborted"]
    /\ UNCHANGED <<args, randomId, repo, envs, envSecrets, run, tempDirs, tempFiles,
                   kubeContext>>

\* one more operation may be called on the Component
MayCall == unit.fn = "Component" /\ Len(unit.calls) < MaxCalls

\* component.patch_from_env(env)
CallPatchFromEnv ==
    /\ MayCall
    /\ unit' = [unit EXCEPT !.c = patch_from_env(unit.c, repo),
                            !.calls = Append(@, "patch_from_env")]
    /\ UNCHANGED <<args, randomId, repo, envs, envSecrets, run, tempDirs, tempFiles,
                   kubeContext>>

\* component._prepare_configs(temp/<rel_id>), called once: the manifests are
\* patched and written under the release directory and kube_configs is
\* pointed at them
CallPrepareConfigs ==
    LET c == unit.c
        rel == randomId[1]
        written == {Materialized(c, i, rel, tempFiles) : i \in 1..Len(c.kube_configs)}
    IN /\ MayCall
       /\ c.path = Dir(0, c.orig_path)
       /\ Patchable(c, tempFiles) = Len(c.kube_configs)
       /\ tempDirs' = tempDirs \cup {<<rel, c.orig_path>>}
       /\ tempFiles' = written
       /\ unit' = [unit EXCEPT
                     !.c.kube_configs =
                         [i \in 1..Len(c.kube_configs) |->
                             <<c.kube_configs[i][1],
                               File("temp", rel, c.orig_path, c.kube_configs[i][1])>>],
                     !.c.path = Dir(rel, c.orig_path),
                     !.calls = Append(@, "_prepare_configs")]
       /\ UNCHANGED <<args, randomId, repo, envs, envSecrets, run, kubeContext>>

\* component._get_resources()
CallGetResources ==
    /\ MayCall
    /\ ~ResourcesUnreadable(unit.c, tempFiles)
    /\ unit' = [unit EXCEPT !.c._resources = _get_resources(unit.c, tempFiles),
                            !.returned = _get_resources(unit.c, tempFiles),
                            !.calls = Append(@, "_get_resources")]
    /\ UNCHANGED <<args, randomId, repo, envs, envSecrets, run, tempDirs, tempFiles,
                   kubeContext>>

\* component.render_template_kind(kind, env, settings): the files rendered
\* earlier are removed, then every template is rendered into the output
\* directory; a template that fails to render raises after the templates
\* before it, in the order of the directory listing, were written
RenderTemplateKind ==
    LET kind == unit.kind
        kept == {f \in unit.output : ~startswith(f.content, TEMPLATE_HEADER(kind, f.name))}
        failing == {t \in unit.kube_templates : ~Renders(t.text)}
    IN /\ unit.fn = "render_template_kind"
       /\ unit.results = <<>>
       /\ IF failing = {}
          THEN unit' = [unit EXCEPT
                          !.output = WriteRendered(kind, kept, unit.kube_templates),
                          !.results = <<[err |-> "none",
                                         rendered_files |->
                                             {t.name : t \in unit.kube_templates}]>>]
          ELSE \E before \in SUBSET (unit.kube_templates \ failing) :
                 unit' = [unit EXCEPT
                            !.output = WriteRendered(kind, kept, before),
                            !.results = <<[err |-> "Exception", rendered_files |-> {}]>>]
       /\ UNCHANGED <<args, randomId, repo, envs, envSecrets, run, tempDirs, tempFiles,
                      kubeContext>>

\* base64_encode_secrets(content), base64_decode_secrets of its result, and
\* both once more, each on the text the one before returned
Base64Step ==
    LET n == Len(unit.results)
        content == IF n = 0 THEN unit.content ELSE unit.results[n]
    IN /\ unit.fn = "base64_encode_secrets"
       /\ n < 4
       /\ unit.err = "none"
       /\ unit' = IF n % 2 = 0
                  THEN [unit EXCEPT !.results = Append(@, base64_encode_secrets(content))]
                  ELSE IF Decodable(content)
                  THEN [unit EXCEPT !.results = Append(@, base64_decode_secrets(content))]
                  ELSE [unit EXCEPT !.err = "binascii.Error"]
       /\ UNCHANGED <<args, randomId, repo, envs, envSecrets, run, tempDirs, tempFiles,
                      kubeContext>>

\* seal_secrets(env, only_changed) for one unsealed file: it is encoded and
\* sealed, with only_changed the sealed file there is is read and unsealed
\* and the unchanged entries are put back, and the sealed file is written;
\* a kubeseal that fails and a sealed file that is missing raise
SealSecrets ==
    LET content == base64_encode_secrets(unit.input)
        sealed_content == kube_seal(content, 1)
        sealed_original_content == unit.output_file.encryptedData
        original_content == kube_unseal(sealed_original_content)
    IN /\ unit.fn = "seal_secrets"
       /\ unit.results = <<>>
       /\ unit.err = "none"
       /\ \E rc \in {"ok", "nonzero"} :
            unit' = IF rc = "nonzero"
                    THEN [unit EXCEPT !.err = "CalledProcessError"]
                    ELSE IF ~unit.only_changed
                    THEN [unit EXCEPT !.output_file = SealedFile(sealed_content),
                                      !.results = <<sealed_content>>]
                    ELSE IF ~unit.output_file.exists
                    THEN [unit EXCEPT !.err = "FileNotFoundError"]
                    ELSE LET reverted ==
                                 _revert_unchanged_secrets(content, sealed_content,
                                     original_content, sealed_original_content)
                         IN [unit EXCEPT !.output_file = SealedFile(reverted),
                                         !.results = <<reverted>>]
       /\ UNCHANGED <<args, randomId, repo, envs, envSecrets, run, tempDirs, tempFiles,
                      kubeContext>>

NextFunctions ==
    \/ MergeDocs
    \/ Patch
    \/ ShowTags
    \/ DeleteTag
    \/ CallPatchFromEnv
    \/ CallPrepareConfigs
    \/ CallGetResources
    \/ RenderTemplateKind
    \/ Base64Step
    \/ SealSecrets

SpecFunctions == InitFunctions /\ [][NextFunctions]_vars

(***************************************************************************)
(* Properties.                                                             *)
(***************************************************************************)
\* the release process has ended: it returned or an exception left it
Ended(r) == run[r].pc \in {"done", "aborted"}

\* the invocations Component.release made for the i-th component of run r
ReleaseLog(r, i) ==
    SelectSeq(run[r].log,
              LAMBDA e : e.idx = i /\ e.phase \in {"apply", "delete", "restart", "post"})

Cmds(log) == [k \in 1..Len(log) |-> log[k].cmd]

\* Component.release of the i-th component of run r was entered and left
\* (by returning or by an exception) with every child process exiting 0
ReleasedCleanly(r, i) ==
    /\ i \in 1..Len(run[r].components)
    /\ \/ run[r].idx > i
       \/ run[r].idx = i /\ run[r].pc = "aborted"
    /\ run[r].rel_id # 0
    /\ \A k \in 1..Len(run[r].log) : run[r].log[k].rc = "ok"

\* a component directory with one Deployment manifest and one obsolete one
OneDeploymentOneObsolete(dir) ==
    /\ dir.kube = <<"deployment.yaml">>
    /\ Len(dir.obsolete) = 1
    /\ dir.overrides = <<>>

\* the order of the invocations of one release(): applies of prepared
\* manifests, then deletes, then the rollouts, each status right after its
\* restart, then the post-release commands
InReleaseOrder(r, log) ==
    /\ \A k \in 1..Len(log) :
         log[k].cmd = "apply" => log[k].file.root = "temp" /\ log[k].file.rel = run[r].rel_id
    /\ \A j, k \in 1..Len(log) :
         j < k =>
           /\ ~(log[j].cmd = "delete" /\ log[k].cmd = "apply")
           /\ ~(log[j].phase = "restart" /\ log[k].phase \in {"apply", "delete"})
           /\ ~(log[j].phase = "post" /\ log[k].phase \in {"apply", "delete", "restart"})
    /\ \A k \in 1..Len(log) :
         log[k].cmd = "rollout status" =>
           k > 1 /\ log[k - 1].cmd = "rollout restart" /\ log[k - 1].what = log[k].what

\* C1: in Component.release without dry_run the invocations of a component
\* come in the order prepare, apply, delete, rollout restart with its
\* rollout status, post-release; and a component with one Deployment and one
\* obsolete manifest yields exactly apply, delete, rollout restart, rollout
\* status.
C1_ReleaseOrder ==
    \A r \in Runs : \A i \in 1..Len(run[r].components) :
        /\ InReleaseOrder(r, ReleaseLog(r, i))
        /\ ( /\ ReleasedCleanly(r, i)
             /\ ~args[r].dry_run
             /\ ~args[r].no_rollout_wait
             /\ OneDeploymentOneObsolete(repo[run[r].components[i]]) )
           => Cmds(SelectSeq(ReleaseLog(r, i), LAMBDA e : e.phase # "post"))
                = <<"apply", "delete", "rollout restart", "rollout status">>

\* the files the invocations cmd of the i-th component of run r were given
FilesOf(r, i, cmd) ==
    {run[r].log[k].file : k \in {j \in 1..Len(run[r].log) :
        /\ run[r].log[j].idx = i
        /\ run[r].log[j].phase \in {"apply", "delete"}
        /\ run[r].log[j].cmd = cmd}}

\* the paths obsolete_kube_configs holds for a component path
ObsoletePaths(path) ==
    {_get_obsolete_kube_configs(path, repo)[k][2] :
        k \in 1..Len(_get_obsolete_kube_configs(path, repo))}

\* C2: every kubectl delete -f of release() is given the path stored in
\* obsolete_kube_configs, never a file applied in the same release, and
\* when every step succeeded the deleted files are the obsolete manifests.
C2_DeletesObsoletePaths ==
    \A r \in Runs : \A i \in 1..Len(run[r].components) :
        /\ FilesOf(r, i, "delete") \subseteq ObsoletePaths(run[r].components[i])
        /\ FilesOf(r, i, "delete") \cap FilesOf(r, i, "apply") = {}
        /\ (ReleasedCleanly(r, i) /\ run[r].idx > i /\ ~args[r].dry_run)
             => FilesOf(r, i, "delete") = ObsoletePaths(run[r].components[i])

\* the commands run() is told not to check
Unchecked == {"create namespace", "exec"}

\* C3: a nonzero exit of any invocation other than kubectl create namespace
\* and the post-release kubectl exec is the last invocation of the run,
\* which ends on CalledProcessError; a nonzero exit of those two never ends
\* the run.
C3_FailureAborts ==
    \A r \in Runs :
        /\ \A k \in 1..Len(run[r].log) :
             (run[r].log[k].rc = "nonzero" /\ run[r].log[k].cmd \notin Unchecked)
               => /\ k = Len(run[r].log)
                  /\ run[r].pc = "aborted"
                  /\ run[r].error = "CalledProcessError"
        /\ run[r].error = "CalledProcessError"
             => /\ run[r].log # <<>>
                /\ Last(run[r].log).rc = "nonzero"
                /\ Last(run[r].log).cmd \notin Unchecked

\* a run that went on after both unchecked commands exited nonzero ended on
\* the nonzero exit of a checked one
C3_Witness ==
    \E r \in Runs :
        /\ run[r].pc = "aborted"
        /\ run[r].error = "CalledProcessError"
        /\ \E k \in 1..Len(run[r].log) :
             run[r].log[k].cmd = "create namespace" /\ run[r].log[k].rc = "nonzero"
        /\ \E k \in 1..Len(run[r].log) :
             run[r].log[k].cmd = "exec" /\ run[r].log[k].rc = "nonzero"
        /\ Last(run[r].log).rc = "nonzero"

\* the invocations of the batch release of run r (those after the build)
BatchLog(r) == SelectSeq(run[r].log, LAMBDA e : e.phase # "build")

\* the steps of the batch release, in the order the claim gives them
PhaseRank(phase) ==
    CASE phase = "build" -> 0
      [] phase = "context" -> 1
      [] phase = "namespace" -> 2
      [] phase = "secrets" -> 3
      [] OTHER -> 4

\* C4: the invocations of a batch release are ordered: kubectl config
\* use-context first, kubectl create namespace second, then the applies and
\* deletes of the environment's secrets, then the components one at a time
\* in the order of the component list.
C4_BatchOrder ==
    \A r \in Runs :
        LET log == BatchLog(r)
        IN /\ log # <<>> => log[1].cmd = "config use-context"
           /\ Len(log) >= 2 => log[2].cmd = "create namespace"
           /\ \A k \in 1..Len(log) :
                /\ k >= 3 => PhaseRank(log[k].phase) >= 3
                /\ PhaseRank(log[k].phase) = 3 =>
                     /\ log[k].cmd \in {"apply", "delete"}
                     /\ log[k].file.root \in {"secrets", "old_secrets"}
                /\ PhaseRank(log[k].phase) = 4 =>
                     /\ log[k].idx \in 1..Len(run[r].components)
                     /\ log[k].file # NoFile =>
                          log[k].file.comp = run[r].components[log[k].idx]
           /\ \A j, k \in 1..Len(log) :
                j < k =>
                  /\ PhaseRank(log[j].phase) <= PhaseRank(log[k].phase)
                  /\ PhaseRank(log[j].phase) = 4 => log[j].idx <= log[k].idx

\* a release of two different components went through the secrets and both
\* components
C4_Witness ==
    \E r \in Runs :
        /\ run[r].pc = "done"
        /\ Len(run[r].components) = 2
        /\ run[r].components[1] # run[r].components[2]
        /\ \E k \in 1..Len(run[r].log) : run[r].log[k].phase = "secrets"
        /\ \E k \in 1..Len(run[r].log) :
             run[r].log[k].idx = 1 /\ run[r].log[k].cmd = "rollout restart"
        /\ \E k \in 1..Len(run[r].log) :
             run[r].log[k].idx = 2 /\ run[r].log[k].cmd = "apply"

\* the commands that change the cluster or the kubectl configuration
Mutating ==
    {"apply", "delete", "create namespace", "config use-context", "rollout restart", "exec"}

\* C5: a release with dry_run issues no invocation that changes the cluster
\* or the kubectl configuration.
C5_DryRunChangesNothing ==
    \A r \in Runs :
        args[r].dry_run =>
            \A k \in 1..Len(run[r].log) : run[r].log[k].cmd \notin Mutating

\* the run holds a release directory: it drew its id and has not ended
Live(r) == run[r].rel_id # 0 /\ ~Ended(r)

\* C6: two release runs executing concurrently never share a release temp
\* directory: their temp/<rel_id> differ, so no run fails on, or removes, a
\* directory of the other.
C6_DistinctTempDirs ==
    \A r1, r2 \in Runs :
        (r1 # r2 /\ Live(r1) /\ Live(r2)) => run[r1].rel_id # run[r2].rel_id

\* the manifests the component in progress has prepared are on disk
PreparedOnDisk(r) ==
    \A i \in 1..Len(run[r].component.kube_configs) :
        FileExists(run[r].component.kube_configs[i][2], tempFiles)

\* C7: when a release run ends, by success or by a failed step, temp/<rel_id>
\* is gone if keep_configs is unset and still holds the materialized
\* manifests if it is set.
C7_TempDirAtEnd ==
    \A r \in Runs :
        (Ended(r) /\ run[r].rel_id # 0) =>
            IF args[r].keep_configs
            THEN PreparedOnDisk(r)
            ELSE \A d \in tempDirs : d[1] # run[r].rel_id

\* C8: whenever kubeval exits nonzero for a manifest, validate fails with
\* ValidationError, and no later manifest is validated.
C8_ValidationError ==
    \A r \in Runs : \A k \in 1..Len(run[r].log) :
        (run[r].log[k].cmd = "kubeval" /\ run[r].log[k].rc = "nonzero")
          => /\ k = Len(run[r].log)
             /\ run[r].pc = "aborted"
             /\ run[r].error = "ValidationError"

\* the component paths the flags --image, --tag or --replicas name
OverridePaths(flags) == Range(DictKeys(ParseFlags(flags, <<>>).d))

C10_ReleasedComponents ==
    \A r \in Runs :
        run[r].rel_id # 0 =>
            run[r].components =
                IF args[r].component = <<>> THEN envs[args[r].env].COMPONENTS
                ELSE SplitComponents(args[r].component)

\* the pods of the last answer of kubectl get pods that have a container of
\* the image the component expects
PodsWithExpectedImage(r) ==
    {run[r].items[i].name : i \in
        {j \in 1..Len(run[r].items) :
            \E n \in 1..Len(run[r].items[j].images) :
                run[r].items[j].images[n] = _get_full_docker_name(run[r].component)}}

\* C11: kubectl exec sh post-release.sh always follows at once a successful
\* kubectl get pods and runs in a listed pod that has a container of the
\* component's expected image; when no listed pod has one the component
\* fails right after the listing, with no exec for that resource.
C11_ExecInMatchingPod ==
    \A r \in Runs :
        LET log == run[r].log
        IN /\ \A k \in 1..Len(log) :
                log[k].cmd = "exec" =>
                  /\ k > 1
                  /\ log[k - 1].cmd = "get pods"
                  /\ log[k - 1].rc = "ok"
                  /\ log[k - 1].idx = log[k].idx
           /\ (log # <<>> /\ Last(log).cmd = "exec" /\ run[r].pc = "post") =>
                Last(log).what[1] \in PodsWithExpectedImage(r)
           /\ run[r].pc = "exec" => Range(run[r].pods) \subseteq PodsWithExpectedImage(r)
           /\ (log # <<>> /\ Last(log).cmd = "get pods" /\ Last(log).rc = "ok") =>
                IF PodsWithExpectedImage(r) = {}
                THEN run[r].pc = "aborted" /\ run[r].error = "Exception"
                ELSE run[r].pc = "exec"
           /\ run[r].error = "Exception" =>
                log # <<>> /\ Last(log).cmd = "get pods" /\ PodsWithExpectedImage(r) = {}

\* post-release.sh ran in the one pod of two that has the expected image
C11_Witness ==
    \E r \in Runs :
        /\ run[r].log # <<>>
        /\ Last(run[r].log).cmd = "exec"
        /\ run[r].pc = "post"
        /\ Len(run[r].items) = 2
        /\ Last(run[r].log).what = <<"pod-2">>

\* the documents of the manifests materialized for the i-th component of run r
MaterializedDocs(r, i) ==
    UNION {Range(f.docs) : f \in {g \in tempFiles :
                                     /\ g.file.rel = run[r].rel_id
                                     /\ g.file.comp = run[r].components[i]}}

\* the resources kubectl rollout restart was issued for, for the i-th component
RestartsOf(r, i) ==
    {run[r].log[k].what : k \in {j \in 1..Len(run[r].log) :
                                    /\ run[r].log[j].idx = i
                                    /\ run[r].log[j].cmd = "rollout restart"}}

\* the resources of the materialized manifests of the kinds the claim names
WorkloadsOf(r, i) ==
    {_get_resource_name(d) : d \in {e \in MaterializedDocs(r, i) :
                                       e.kind \in {"Deployment", "DaemonSet", "StatefulSet"}}}

\* the restart phase of the i-th component of run r has run to its end
Restarted(r, i) ==
    /\ ~args[r].dry_run
    /\ run[r].pc # "done"
    /\ \/ i < run[r].idx
       \/ i = run[r].idx /\ run[r].pc \in {"post", "exec"}

\* C12: kubectl rollout restart is issued only for resources of the
\* materialized manifests of kind Deployment, DaemonSet or StatefulSet, and
\* once the restart phase is through for all of them; unless no_rollout_wait
\* is set each restart is followed at once by kubectl rollout status of the
\* same resource, and with no_rollout_wait there is no rollout status.
C12_RestartPhase ==
    \A r \in Runs :
        LET log == run[r].log
        IN /\ \A i \in 1..Len(run[r].components) :
                /\ (run[r].pc # "done" /\ i <= run[r].idx)
                      => RestartsOf(r, i) \subseteq WorkloadsOf(r, i)
                /\ Restarted(r, i) => RestartsOf(r, i) = WorkloadsOf(r, i)
           /\ \A k \in 1..Len(log) :
                /\ (log[k].cmd = "rollout restart" /\ ~args[r].no_rollout_wait
                      /\ log[k].rc = "ok") =>
                        IF k = Len(log) THEN run[r].pc = "status"
                        ELSE /\ log[k + 1].cmd = "rollout status"
                             /\ log[k + 1].what = log[k].what
                /\ log[k].cmd = "rollout status" => ~args[r].no_rollout_wait

\* the restart phase of a component with a Deployment and a Service went
\* through, with the wait for the rollout
C12_Witness ==
    \E r \in Runs : \E i \in 1..Len(run[r].components) :
        /\ Restarted(r, i)
        /\ \E d \in MaterializedDocs(r, i) : d.kind = "Service"
        /\ RestartsOf(r, i) = {<<"Deployment", "/", "api">>}
        /\ \E k \in 1..Len(run[r].log) :
             run[r].log[k].cmd = "rollout status" /\ run[r].log[k].idx = i

\* C13: every kubectl rollout status is run with the rollout_timeout given
\* to the release as its timeout, and with 300 seconds when none is given.
C13_RolloutTimeout ==
    \A r \in Runs : \A k \in 1..Len(run[r].log) :
        run[r].log[k].cmd = "rollout status" =>
            run[r].log[k].timeout =
                IF args[r].rollout_timeout # <<>>
                THEN pytimeparse_parse(args[r].rollout_timeout)
                ELSE 300

\* merge_docs was called and returned
Merged == unit.fn = "merge_docs" /\ unit.results # <<>> /\ unit.results[1].err = "none"

\* C14: merging the same overrides into the result of a merge leaves it as
\* it is: merge_docs(merge_docs(S, O), O) is value-equal to merge_docs(S, O).
C14_MergeIdempotent ==
    (Merged /\ Len(unit.results) = 2) =>
        /\ unit.results[2].err = "none"
        /\ DocsEq(unit.results[2].docs, unit.results[1].docs)

\* every leaf of an override is the empty string, written with no value or as ""
RECURSIVE AllEmpty(_)
AllEmpty(node) ==
    IF node.t = "scalar" THEN node.s = ""
    ELSE \A i \in 1..Len(node.v) : AllEmpty(node.v[i].v)

\* an override has the shape of a source value: its mappings lie over
\* mappings that have their keys, its sequences over sequences that have
\* their positions, and its leaves over values of any type
RECURSIVE MatchesShape(_, _)
MatchesShape(node, val) ==
    CASE node.t = "mapping" ->
           /\ val.t = "dict"
           /\ \A i \in 1..Len(node.v) :
                /\ HasKey(val.v, node.v[i].k)
                /\ MatchesShape(node.v[i].v, ValueAt(val.v, node.v[i].k))
      [] node.t = "sequence" ->
           /\ val.t = "list"
           /\ Len(node.v) <= Len(val.v)
           /\ \A i \in 1..Len(node.v) : MatchesShape(node.v[i].v, val.v[i].v)
      [] OTHER -> TRUE

\* C15: merging overrides of matching shape whose leaves are all the empty
\* string raises no error and returns a stream value-equal to the source,
\* whatever the type of the source value under each leaf.
C15_MergeIdentity ==
    ( /\ unit.fn = "merge_docs"
      /\ Len(unit.results) = 1
      /\ AllEmpty(unit.overrides[1])
      /\ MatchesShape(unit.overrides[1], unit.src[1]) ) =>
        /\ unit.results[1].err = "none"
        /\ DocsEq(unit.results[1].docs, unit.src)

\* the literal value of an override is ~
LiteralTilde(node) == node.t = "scalar" /\ node.s = "~"

\* the number of ~ among the first n items of an override sequence
Tildes(items, n) == Cardinality({i \in 1..n : LiteralTilde(items[i].v)})

\* res is src with the ~ of an override taken out: the ~ keys of a mapping
\* are absent and the keys the override does not name keep their values, the
\* ~ positions of a sequence add no element, and so on below the positions
\* the source has
RECURSIVE DeletedOk(_, _, _)
DeletedOk(res, src, node) ==
    CASE node.t = "mapping" /\ src.t = "dict" /\ res.t = "dict" ->
           /\ \A i \in 1..Len(node.v) :
                LET key == node.v[i].k IN
                IF LiteralTilde(node.v[i].v) THEN ~HasKey(res.v, key)
                ELSE (HasKey(src.v, key) /\ HasKey(res.v, key)) =>
                         DeletedOk(ValueAt(res.v, key), ValueAt(src.v, key), node.v[i].v)
           /\ \A j \in 1..Len(src.v) :
                ~HasKey(node.v, src.v[j].k) =>
                    /\ HasKey(res.v, src.v[j].k)
                    /\ ValueEq(ValueAt(res.v, src.v[j].k), src.v[j].v)
      [] node.t = "sequence" /\ src.t = "list" /\ res.t = "list" ->
           /\ Len(res.v) =
                  (IF Len(src.v) > Len(node.v) THEN Len(src.v) ELSE Len(node.v))
                      - Tildes(node.v, Len(node.v))
           /\ \A i \in 1..Len(node.v) :
                LET at == i - Tildes(node.v, i) IN
                (i <= Len(src.v) /\ ~LiteralTilde(node.v[i].v) /\ at <= Len(res.v)) =>
                    DeletedOk(res.v[at].v, src.v[i].v, node.v[i].v)
      [] OTHER -> TRUE

\* C16: in the result of a merge every mapping key whose literal override is
\* ~ is absent while its sibling keys keep their source values, and every
\* sequence position whose literal override is ~ adds no element.
C16_MergeDeletes ==
    Merged => DeletedOk(unit.results[1].docs[1], unit.src[1], unit.overrides[1])

\* val is an override merged against an empty container of its shape: a
\* mapping without its ~ keys, a sequence without its ~ positions, and so on
\* below them
RECURSIVE AddedOk(_, _)
AddedOk(val, node) ==
    CASE node.t = "mapping" ->
           /\ val.t = "dict"
           /\ \A i \in 1..Len(node.v) :
                IF LiteralTilde(node.v[i].v) THEN ~HasKey(val.v, node.v[i].k)
                ELSE /\ HasKey(val.v, node.v[i].k)
                     /\ AddedOk(ValueAt(val.v, node.v[i].k), node.v[i].v)
      [] node.t = "sequence" ->
           /\ val.t = "list"
           /\ Len(val.v) = Len(node.v) - Tildes(node.v, Len(node.v))
           /\ \A i \in 1..Len(node.v) :
                LET at == i - Tildes(node.v, i) IN
                (~LiteralTilde(node.v[i].v) /\ at <= Len(val.v)) =>
                    AddedOk(val.v[at].v, node.v[i].v)
      [] OTHER -> TRUE

\* the non-scalar overrides at keys the source mapping does not have
AddedAtKeys(res, src, node) ==
    \A i \in 1..Len(node.v) :
        (node.v[i].v.t # "scalar" /\ ~HasKey(src.v, node.v[i].k)) =>
            /\ HasKey(res.v, node.v[i].k)
            /\ AddedOk(ValueAt(res.v, node.v[i].k), node.v[i].v)

\* the non-scalar overrides at positions at or beyond the source length
AddedAtPositions(res, src, node) ==
    \A i \in 1..Len(node.v) :
        LET key == node.v[i].k
            seq == node.v[i].v
        IN  ( /\ seq.t = "sequence"
              /\ HasKey(src.v, key) /\ ValueAt(src.v, key).t = "list"
              /\ HasKey(res.v, key) /\ ValueAt(res.v, key).t = "list" ) =>
                \A j \in 1..Len(seq.v) :
                    (j > Len(ValueAt(src.v, key).v) /\ seq.v[j].v.t # "scalar") =>
                        \E e \in 1..Len(ValueAt(res.v, key).v) :
                            AddedOk(ValueAt(res.v, key).v[e].v, seq.v[j].v)

\* C17: a non-scalar override at a mapping key the source does not have, or
\* at a sequence position at or beyond the source length, is merged against
\* an empty container of its shape, so the subtree added to the result has
\* no ~ key and no null made from a ~, in a mapping and in a sequence alike.
C17_AddedSubtrees ==
    Merged =>
        /\ AddedAtKeys(unit.results[1].docs[1], unit.src[1], unit.overrides[1])
        /\ AddedAtPositions(unit.results[1].docs[1], unit.src[1], unit.overrides[1])

\* the position of the first sep in s, Len(s) + 1 when s has none
FirstAt(s, sep) ==
    IF sep \in Range(s) THEN CHOOSE i \in 1..Len(s) : s[i] = sep /\ \A j \in 1..(i - 1) : s[j] # sep
    ELSE Len(s) + 1

\* the text before and after the first sep of s
Before(s, sep) == SubSeq(s, 1, FirstAt(s, sep) - 1)
After(s, sep) == SubSeq(s, FirstAt(s, sep) + 1, Len(s))

\* ref:tag of an image split at its first ":", with the image and the tag of
\* the component in their place when they are set
ExpectedImage(c, image) ==
    (IF c.image # <<>> THEN c.image ELSE Before(image, ":"))
        \o <<":">> \o (IF c.tag # <<>> THEN c.tag ELSE After(image, ":"))

\* the patches were applied to the manifest
Patched == unit.fn = "patch" /\ unit.results # <<>>

\* C18: patching rewrites every container image to ref:tag, the image split
\* at its first ":" with the component's image and tag in place of ref and
\* tag when set, for every image string and without an error.
C18_ContainerRewrite ==
    Patched =>
        LET out == unit.results[1].containers IN
        /\ out.err = "none"
        /\ Len(out.doc.containers) = Len(unit.doc.containers)
        /\ \A i \in 1..Len(unit.doc.containers) :
               out.doc.containers[i] = ExpectedImage(unit.c, unit.doc.containers[i])

\* the image Component._patch_image_pull_secrets looks at: the image of the
\* component if set, else the ref of the first container
EffectiveRef(c, doc) ==
    IF c.image # <<>> THEN c.image
    ELSE IF doc.containers # <<>> THEN Before(doc.containers[1], ":")
    ELSE <<>>

\* C19: when the effective ref holds a "/" and the text before its first "/"
\* is a key of image_pull_secrets, imagePullSecrets is exactly that secret
\* after patching, and otherwise it is unchanged; for any number of "/" and
\* without an error.
C19_PullSecret ==
    Patched =>
        LET out == unit.results[1].secrets
            ref == EffectiveRef(unit.c, unit.doc)
            host == Before(ref, "/")
        IN /\ out.err = "none"
           /\ out.doc.imagePullSecrets =
                  IF "/" \in Range(ref) /\ DictHas(unit.c.image_pull_secrets, host)
                  THEN <<DictGet(unit.c.image_pull_secrets, host)>>
                  ELSE unit.doc.imagePullSecrets

\* C20: a workload manifest patched by a component whose replicas is an
\* integer r >= 0 has spec.replicas = r, and keeps its replicas when the
\* component has none set.
C20_Replicas ==
    Patched =>
        LET out == unit.results[1].replicas IN
        /\ unit.c.replicas.t = "int" => out.replicas = unit.c.replicas
        /\ unit.c.replicas.t = "none" => out.replicas = unit.doc.replicas

\* C21: a CronJob is patched like the other workloads, under
\* spec.jobTemplate.spec: its containers get the image and tag rewrite, and
\* with component.replicas = 77 its replicas is 77 (for a manifest whose
\* images have the form ref:tag and a component whose image has no more than
\* one "/", which the patches of the other workloads accept).
C21_CronJobPatched ==
    ( /\ Patched
      /\ unit.doc.kind = "CronJob"
      /\ \A i \in 1..Len(unit.doc.containers) : SplitsInTwo(unit.doc.containers[i], ":")
      /\ Len(Split(unit.c.image, "/")) <= 2 ) =>
        LET out == unit.results[1].docs IN
        /\ out.err = "none"
        /\ \A i \in 1..Len(unit.doc.containers) :
               out.docs[1].containers[i] = ExpectedImage(unit.c, unit.doc.containers[i])
        /\ unit.c.replicas = PyInt(77) => out.docs[1].replicas = PyInt(77)

\* C26: with two releases running at once for environments with different
\* KUBE_CONTEXT, every kubectl apply, delete and rollout command of a run is
\* executed while the current context of kubectl is that run's KUBE_CONTEXT.
C26_OwnContext ==
    \A r \in Runs : \A k \in 1..Len(run[r].log) :
        run[r].log[k].cmd \in {"apply", "delete", "rollout restart", "rollout status"} =>
            run[r].log[k].ctx = envs[args[r].env].KUBE_CONTEXT

\* C27: while _try_post_release picks the pod, the image it compares the pod
\* containers with is the ref:tag _patch_containers stored in the containers
\* of the component's materialized workloads.
C27_ExpectedImageIsReleased ==
    \A r \in Runs :
        run[r].pc \in {"post", "exec"} =>
            \A d \in MaterializedDocs(r, run[r].idx) :
                d.kind \in RESTART_RESOURCES =>
                    \A i \in 1..Len(d.containers) :
                        d.containers[i] = _get_full_docker_name(run[r].component)

\* C28: merge_docs raises no error and returns as many documents as the
\* source stream has, whatever the length of the override stream: the source
\* documents beyond the end of the override stream are returned unchanged and
\* the override documents beyond the end of the source stream are ignored.
C28_StreamLengths ==
    (unit.fn = "merge_docs (streams)" /\ unit.results # <<>>) =>
        LET out == unit.results[1] IN
        /\ out.err = "none"
        /\ Len(out.docs) = Len(unit.src)
        /\ \A i \in 1..Len(unit.src) :
               i > Len(unit.overrides) => ValueEq(out.docs[i], unit.src[i])

\* the places in the log of run r of the kubectl commands of release_env
\* for the files under root
SecretCalls(r, cmd, root) ==
    {k \in 1..Len(run[r].log) :
        run[r].log[k].cmd = cmd /\ run[r].log[k].file.root = root}

\* C29: release_env never gives a file named *.unsealed.yaml to kubectl
\* apply, applies the sealed secret files in ascending order of their names,
\* and applies all of them before it deletes any obsolete secret file.
C29_SealedSecretsOnly ==
    \A r \in Runs :
        LET log == run[r].log
            applies == SecretCalls(r, "apply", "secrets")
            deletes == SecretCalls(r, "delete", "old_secrets")
        IN /\ \A k \in applies : log[k].file.name # ".unsealed.yaml"
           /\ \A j, k \in applies : j < k => log[j].file.rel < log[k].file.rel
           /\ \A j \in applies, k \in deletes : j < k

\* every sealed secret was applied, in the presence of unsealed copies, and
\* an obsolete secret was deleted after them
C29_Witness ==
    \E r \in Runs :
        /\ Cardinality(SecretCalls(r, "apply", "secrets")) = MaxSecrets
        /\ SecretCalls(r, "delete", "old_secrets") # {}
        /\ \E f \in envSecrets.files : f.unsealed

\* tag a is older than tag b, by the date and the time in their names
Older(a, b) == a.date < b.date \/ (a.date = b.date /\ a.time < b.time)

\* C30: when cleanup_acr_repository has completed, at most MAX_TAGS tags
\* remain in the repository, every deleted tag is older than every tag kept,
\* and nothing was deleted from a repository of MAX_TAGS tags or fewer.
C30_KeepsNewestTags ==
    (unit.fn = "cleanup_acr_repository" /\ unit.pc = "done") =>
        /\ Cardinality(unit.repository) <= MAX_TAGS
        /\ \A d \in unit.deleted, k \in unit.repository : Older(d, k)
        /\ Cardinality(unit.tags) <= MAX_TAGS => unit.deleted = {}

\* C24: whatever operations were called on a Component before, in whatever
\* order, the mapping _get_resources returns is the index Kind/name ->
\* {kind, name, selector} of the manifests kube_configs names now.
C24_ResourceIndex ==
    ( /\ unit.fn = "Component"
      /\ unit.calls # <<>>
      /\ Last(unit.calls) = "_get_resources" ) =>
        unit.returned = BuildResources(unit.c, tempFiles)


\* C23: after render_template_kind returned, every file of the output
\* directory that carried no provenance header before the call is still
\* there with the content it had, also when a template has its name, and a
\* file with the provenance header of its template is there exactly when
\* the template exists
C23_TemplateCleanup ==
    ( /\ unit.fn = "render_template_kind" /\ unit.results # <<>>
      /\ unit.results[1].err = "none" ) =>
        /\ \A f \in unit.old :
              (\A k \in TEMPLATE_KINDS : ~startswith(f.content, TEMPLATE_HEADER(k, f.name)))
                  => f \in unit.output
        /\ \A n \in TemplateNames :
              (\E f \in unit.output :
                   f.name = n /\ startswith(f.content, TEMPLATE_HEADER(unit.kind, n)))
                  <=> (\E t \in unit.kube_templates : t.name = n)

\* the entries of data of a manifest, key and value
DataOf(content) ==
    LET data == Load(content).data
    IN [i \in 1..Len(data) |-> <<data[i][1], data[i][2]>>]

\* C25: decoding the encoded manifest gives the data of the manifest,
\* encoding and decoding once more give the same texts again, and an entry
\* that is null stays null in every text
C25_Base64RoundTrip ==
    unit.fn = "base64_encode_secrets" =>
        LET r == unit.results
            data == DataOf(unit.content)
        IN /\ unit.err = "none"
           /\ Len(r) >= 2 => DataOf(r[2]) = data
           /\ Len(r) >= 3 => r[3] = r[1]
           /\ Len(r) >= 4 => r[4] = r[2]
           /\ \A n \in 1..Len(r) :
                /\ Len(DataOf(r[n])) = Len(data)
                /\ \A i \in 1..Len(data) :
                     data[i][2] = PyNone <=> DataOf(r[n])[i][2] = PyNone

\* the sealed file was written by a resealing of the changed secrets only
Resealed ==
    /\ unit.fn = "seal_secrets"
    /\ unit.only_changed
    /\ unit.results # <<>>

\* the ciphertext the resealing produced for a value
NewCipher(value) == Cipher(utf8_decode(b64encode(utf8_encode(value.s))), 1)

\* C22: after resealing with only_changed, the sealed file holds for every
\* key of the new unsealed secret the ciphertext of the prior sealed file
\* when the value is the one of the prior unsealed file, and the new
\* ciphertext when the value changed or the key is new; it holds no key the
\* new secret does not have
C22_RevertUnchanged ==
    Resealed =>
        LET new == DataOf(unit.input)
            prior == DataOf(unit.prior)
            written == unit.output_file.encryptedData
        IN /\ \A i \in 1..Len(new) :
                /\ DictHas(written, new[i][1])
                /\ DictGet(written, new[i][1]) =
                       IF DictHas(prior, new[i][1]) /\ DictGet(prior, new[i][1]) = new[i][2]
                       THEN DictGet(unit.original.encryptedData, new[i][1])
                       ELSE NewCipher(new[i][2])
           /\ \A i \in 1..Len(written) : DictHas(new, written[i][1])

\* a resealing wrote a file for a secret with an unchanged key, a changed
\* key and a new key, and without a key the prior secret had
C22_Witness ==
    /\ Resealed
    /\ LET new == DataOf(unit.input)
           prior == DataOf(unit.prior)
       IN /\ DictHas(new, "cert") /\ DictHas(prior, "cert")
          /\ DictGet(new, "cert") = DictGet(prior, "cert")
          /\ DictHas(new, "password") /\ DictHas(prior, "password")
          /\ DictGet(new, "password") # DictGet(prior, "password")
          /\ DictHas(new, "token") /\ ~DictHas(prior, "token")
          /\ ~DictHas(new, "user") /\ DictHas(prior, "user")
====
